---- MODULE Spec2Model ----
(***************************************************************************)
(* Document-extraction pipeline of crm/helpers: text acquisition, strategy *)
(* selection and chaining, result merging, confidence bookkeeping and the  *)
(* two-digit-year pivots of the date parsers.                              *)
(*                                                                         *)
(* Conventions.  Python None is Null for string-valued fields and NoDate   *)
(* for dates.  A confidence is kept in tenths (1.0 is 10, 0.2 is 2).       *)
(* A text is represented by its length where only the acquisition code and *)
(* the pipeline inspect it, and by the record of what the strategies'      *)
(* patterns find in it where a strategy reads it.  A date is the integer   *)
(* yyyymmdd.                                                               *)
(***************************************************************************)
EXTENDS Integers, Sequences, FiniteSets, TLC

VARIABLES
    \* ---- one _pipeline_extract call ----
    pc,          \* position of the call
    kind,        \* filetype.guess(file_content): "none", "image", "pdf", "other"
    doc_type,    \* the document-type hint
    raw_mrz,     \* the caller-supplied raw MRZ dict (or Null)
    files,       \* temporary files that exist on disk
    created,     \* every temporary file the call has created
    text,        \* length of the text returned by _extract_text (NoText before)
    pdf,         \* locals of _extract_from_pdf: [text, pages, parts]
    strats,      \* the strategy objects, in creation order
    primary,     \* primary_strategy (index into strats, 0 = unset)
    loc,         \* locals of _pipeline_extract: [mrz_data_obj, file_path, temp_file]
    chain,       \* locals of chain_strategies: [strategy, results, ran]
    result,      \* the ExtractionResult chain_strategies returned (Unset before)
    ret,         \* what _pipeline_extract returned (Unset before it returns)
    exc,         \* the exceptions raised so far: [site, handler]
    \* ---- _merge_results applied to a drawn pair ----
    m_primary, m_fallback, m_merged,
    \* ---- add_error / add_warning on one strategy and one ExtractionResult ----
    c_strategy, c_result,
    \* ---- the two-digit-year expansions ----
    p_in, p_out,
    \* ---- one call of a resolver or of a strategy's extract on drawn inputs ----
    u_in, u_out

pipeVars  == <<pc, kind, doc_type, raw_mrz, files, created, text, pdf, strats,
               primary, loc, chain, result, ret, exc>>
mergeVars == <<m_primary, m_fallback, m_merged>>
confVars  == <<c_strategy, c_result>>
pivotVars == <<p_in, p_out>>
unitVars  == <<u_in, u_out>>
vars      == <<pipeVars, mergeVars, confVars, pivotVars, unitVars>>

----------------------------------------------------------------------------
(* Values *)

Null     == "None"
NoDate   == 0
Unset    == [unset |-> TRUE]    \* a local not yet assigned
PyNone   == [none |-> TRUE]     \* None where a record is expected
NoText   == -1

Min(a, b) == IF a <= b THEN a ELSE b
Max(a, b) == IF a >= b THEN a ELSE b

\* Python's `a or b` on Optional[str]: None and "" are falsy.
OrStr(a, b) == IF a \notin {Null, ""} THEN a ELSE b

\* Python's `a or b` on Optional[date]: only None is falsy.
OrDate(a, b) == IF a # NoDate THEN a ELSE b

----------------------------------------------------------------------------
(* ExtractionResult and the strategy's bookkeeping *)

FullConfidence == 10
ErrorPenalty   == 2
WarningPenalty == 1

ExtractionResult(number, issued_country, expiration_date, confidence, validation_errors, warnings) ==
    [number |-> number, issued_country |-> issued_country,
     expiration_date |-> expiration_date, confidence |-> confidence,
     validation_errors |-> validation_errors, warnings |-> warnings]

\* ExtractionResult.is_complete
is_complete(r) ==
    /\ r.number # Null
    /\ r.issued_country # Null
    /\ r.expiration_date # NoDate

\* ExtractionResult.add_error
ResultAddError(r, error) ==
    [r EXCEPT !.validation_errors = Append(@, error),
              !.confidence = Max(0, @ - ErrorPenalty)]

\* ExtractionResult.add_warning
ResultAddWarning(r, warning) ==
    [r EXCEPT !.warnings = Append(@, warning),
              !.confidence = Max(0, @ - WarningPenalty)]

\* DocumentExtractionStrategy.__init__, for an instance of class cls
NewStrategy(cls) ==
    [cls |-> cls, validation_errors |-> <<>>, warnings |-> <<>>,
     confidence |-> FullConfidence, fallback |-> 0]

add_error_unfloored(s, error) ==
    [s EXCEPT !.validation_errors = Append(@, error),
              !.confidence = @ - ErrorPenalty]

\* DocumentExtractionStrategy.add_error
add_error(s, error) ==
    [s EXCEPT !.validation_errors = Append(@, error),
              !.confidence = Max(0, @ - ErrorPenalty)]

\* DocumentExtractionStrategy.add_warning
add_warning(s, warning) ==
    [s EXCEPT !.warnings = Append(@, warning),
              !.confidence = Max(0, @ - WarningPenalty)]

\* DocumentExtractionStrategy._create_result
_create_result(s, number, issued_country, expiration_date) ==
    ExtractionResult(number, issued_country, expiration_date,
                     s.confidence, s.validation_errors, s.warnings)

_merge_results_not_none(p, f) ==
    ExtractionResult(
        IF p.number # Null THEN p.number ELSE f.number,
        IF p.issued_country # Null THEN p.issued_country ELSE f.issued_country,
        IF p.expiration_date # NoDate THEN p.expiration_date ELSE f.expiration_date,
        Min(p.confidence, f.confidence),
        p.validation_errors \o f.validation_errors,
        p.warnings \o f.warnings)

_merge_results_primary_conf(p, f) ==
    ExtractionResult(
        OrStr(p.number, f.number),
        OrStr(p.issued_country, f.issued_country),
        OrDate(p.expiration_date, f.expiration_date),
        p.confidence,
        p.validation_errors \o f.validation_errors,
        p.warnings \o f.warnings)

\* DocumentExtractionStrategy._merge_results
_merge_results(p, f) ==
    ExtractionResult(
        OrStr(p.number, f.number),
        OrStr(p.issued_country, f.issued_country),
        OrDate(p.expiration_date, f.expiration_date),
        Min(p.confidence, f.confidence),
        p.validation_errors \o f.validation_errors,
        p.warnings \o f.warnings)

----------------------------------------------------------------------------
(* Exceptions: which except clause absorbs an exception raised at a site *)

Sites == {"text.tempfile", "image.ocr", "pdf.pdfminer", "pdf.convert", "pdf.page.save",
          "pdf.page.ocr", "pipeline.mrz", "pipeline.tempfile",
          "pipeline.pdf.convert", "pipeline.pdf.save", "pipeline.extract"}

Handler_no_outer_try(site) ==
    CASE site \in {"image.ocr", "pdf.page.ocr"}                   -> "_extract_from_image"
      [] site \in {"pdf.pdfminer", "pdf.convert", "pdf.page.save"} -> "_extract_from_pdf"
      [] site = "pipeline.mrz"                                     -> "_pipeline_extract.mrz"
      [] site \in {"pipeline.pdf.convert", "pipeline.pdf.save"}    -> "_pipeline_extract.pdf"
      [] site \in {"text.tempfile", "pipeline.tempfile",
                   "pipeline.extract"}                           -> "caller"

Handler_ocr_unguarded(site) ==
    CASE site = "image.ocr"                                        -> "_pipeline_extract"
      [] site \in {"pdf.pdfminer", "pdf.convert", "pdf.page.save",
                   "pdf.page.ocr"}                                 -> "_extract_from_pdf"
      [] site = "pipeline.mrz"                                     -> "_pipeline_extract.mrz"
      [] site \in {"pipeline.pdf.convert", "pipeline.pdf.save"}    -> "_pipeline_extract.pdf"
      [] site \in {"text.tempfile", "pipeline.tempfile",
                   "pipeline.extract"}                           -> "_pipeline_extract"

\* The try/except structure of doc_extract.py
Handler(site) ==
    CASE site \in {"image.ocr", "pdf.page.ocr"}                   -> "_extract_from_image"
      [] site \in {"pdf.pdfminer", "pdf.convert", "pdf.page.save"} -> "_extract_from_pdf"
      [] site = "pipeline.mrz"                                     -> "_pipeline_extract.mrz"
      [] site \in {"pipeline.pdf.convert", "pipeline.pdf.save"}    -> "_pipeline_extract.pdf"
      [] site \in {"text.tempfile", "pipeline.tempfile",
                   "pipeline.extract"}                           -> "_pipeline_extract"

Raised(site) == exc \cup {[site |-> site, handler |-> Handler(site)]}

\* Where control goes when the exception is absorbed by the except clause of
\* _pipeline_extract, or by nobody in this module
Unwind(site) == IF Handler(site) = "_pipeline_extract" THEN "except" ELSE "raised"

----------------------------------------------------------------------------
(* Text acquisition: _extract_text, _extract_from_image, _extract_from_pdf *)

MaxPages   == 2
MinPdfText == 50

Kinds == {"none", "image", "pdf", "other"}

\* Lengths of the text Tesseract may return for one image
OcrLens == {0, 60}

\* What pdfminer may return: the length of the text and of text.strip()
PdfTexts == {[len |-> 0, stripped |-> 0], [len |-> 3, stripped |-> 0],
             [len |-> 60, stripped |-> 60]}

NoPdf == [text |-> [len |-> 0, stripped |-> 0], pages |-> 0, parts |-> <<>>]

RECURSIVE SumSeq(_)
SumSeq(q) == IF q = <<>> THEN 0 ELSE Head(q) + SumSeq(Tail(q))

\* len("\n".join(parts))
JoinLen(parts) == IF parts = <<>> THEN 0 ELSE SumSeq(parts) + (Len(parts) - 1)

PageFile(i) == "page" \o ToString(i)

\* The OCR fallback condition of _extract_from_pdf
NeedsOcr(t) == t.len = 0 \/ t.stripped < MinPdfText

\* _extract_text up to the dispatch on the detected kind
ExtractTextStart ==
    /\ pc = "start"
    /\ IF kind = "none"
       THEN /\ text' = 0
            /\ pc' = "text_returned"
            /\ UNCHANGED <<files, created>>
            /\ UNCHANGED exc
       ELSE \/ /\ files' = files \cup {"txt"}
               /\ created' = created \cup {"txt"}
               /\ IF kind = "image" THEN pc' = "ocr_image" /\ UNCHANGED text
                  ELSE IF kind = "pdf" THEN pc' = "pdf_text" /\ UNCHANGED text
                  ELSE pc' = "text_finally" /\ text' = 0
               /\ UNCHANGED exc
            \/ \* the temporary file cannot be created: nothing here catches it
               /\ exc' = Raised("text.tempfile")
               /\ pc' = Unwind("text.tempfile")
               /\ UNCHANGED <<files, created, text>>
    /\ UNCHANGED <<kind, doc_type, raw_mrz, pdf, strats, primary, loc, chain,
                   result, ret>>
    /\ UNCHANGED <<mergeVars, confVars, pivotVars, unitVars>>

\* _extract_from_image on the temporary copy of an image
ExtractFromImage ==
    /\ pc = "ocr_image"
    /\ \/ \E n \in OcrLens :
            /\ text' = n
            /\ pc' = "text_finally"
            /\ UNCHANGED <<files, exc>>
       \/ /\ exc' = Raised("image.ocr")
          /\ IF Handler("image.ocr") = "_extract_from_image"
             THEN /\ text' = 0
                  /\ pc' = "text_finally"
                  /\ UNCHANGED files
             ELSE /\ files' = files \ {"txt"}
                  /\ pc' = Unwind("image.ocr")
                  /\ UNCHANGED text
    /\ UNCHANGED <<kind, doc_type, raw_mrz, created, pdf, strats, primary, loc,
                   chain, result, ret>>
    /\ UNCHANGED <<mergeVars, confVars, pivotVars, unitVars>>

\* _extract_from_pdf: the embedded-text attempt and the decision to OCR
ExtractFromPdfText ==
    /\ pc = "pdf_text"
    /\ \E t \in PdfTexts, raises \in BOOLEAN :
          LET got == IF raises THEN [len |-> 0, stripped |-> 0] ELSE t IN
          /\ raises => t = [len |-> 0, stripped |-> 0]
          /\ exc' = IF raises THEN Raised("pdf.pdfminer") ELSE exc
          /\ pdf' = [text |-> got, pages |-> 0, parts |-> <<>>]
          /\ IF NeedsOcr(got)
             THEN pc' = "pdf_render" /\ UNCHANGED text
             ELSE pc' = "text_finally" /\ text' = got.len
    /\ UNCHANGED <<kind, doc_type, raw_mrz, files, created, strats, primary,
                   loc, chain, result, ret>>
    /\ UNCHANGED <<mergeVars, confVars, pivotVars, unitVars>>

\* _extract_from_pdf: convert_from_path renders the pages
ExtractFromPdfRender ==
    /\ pc = "pdf_render"
    /\ \/ \E n \in 0..MaxPages :
            /\ pdf' = [pdf EXCEPT !.pages = n]
            /\ IF n = 0
               THEN pc' = "text_finally" /\ text' = JoinLen(<<>>)
               ELSE pc' = "pdf_page" /\ UNCHANGED text
            /\ UNCHANGED exc
       \/ /\ exc' = Raised("pdf.convert")
          /\ text' = pdf.text.len
          /\ pc' = "text_finally"
          /\ UNCHANGED pdf
    /\ UNCHANGED <<kind, doc_type, raw_mrz, files, created, strats, primary,
                   loc, chain, result, ret>>
    /\ UNCHANGED <<mergeVars, confVars, pivotVars, unitVars>>

\* _extract_from_pdf: one iteration of the page loop
ExtractFromPdfPage ==
    /\ pc = "pdf_page"
    /\ LET i == Len(pdf.parts) + 1 IN
       \/ \* image.save raises: the page file stays, the except clause keeps text
          /\ exc' = Raised("pdf.page.save")
          /\ files' = files \cup {PageFile(i)}
          /\ created' = created \cup {PageFile(i)}
          /\ text' = pdf.text.len
          /\ pc' = "text_finally"
          /\ UNCHANGED pdf
       \/ \E n \in OcrLens, raises \in BOOLEAN :
            LET part  == IF raises THEN 0 ELSE n
                parts == Append(pdf.parts, part) IN
            /\ raises => n = 0
            /\ exc' = IF raises THEN Raised("pdf.page.ocr") ELSE exc
            /\ created' = created \cup {PageFile(i)}
            /\ files' = files \ {PageFile(i)}
            /\ pdf' = [pdf EXCEPT !.parts = parts]
            /\ IF i = pdf.pages
               THEN pc' = "text_finally" /\ text' = JoinLen(parts)
               ELSE pc' = "pdf_page" /\ UNCHANGED text
    /\ UNCHANGED <<kind, doc_type, raw_mrz, strats, primary, loc, chain,
                   result, ret>>
    /\ UNCHANGED <<mergeVars, confVars, pivotVars, unitVars>>

\* the finally clause of _extract_text
ExtractTextFinally ==
    /\ pc = "text_finally"
    /\ files' = files \ {"txt"}
    /\ pdf' = NoPdf
    /\ pc' = "text_returned"
    /\ UNCHANGED <<kind, doc_type, raw_mrz, created, text, strats, primary,
                   loc, chain, result, ret, exc>>
    /\ UNCHANGED <<mergeVars, confVars, pivotVars, unitVars>>

----------------------------------------------------------------------------
(* MRZData *)

\* an Optional value of MRZData.expiration_date / expiration_date_str:
\* type "str" carries the digits YYMMDD, type "date" the date yyyymmdd
NoValue      == [type |-> "NoneType", value |-> 0]
StrValue(v)  == [type |-> "str", value |-> v]
DateValue(v) == [type |-> "date", value |-> v]

\* The raw MRZ dicts a caller may pass (given = FALSE: raw_mrz_data is None)
RawMrzSamples ==
    { [given |-> FALSE, issuing_state |-> Null, number |-> Null,
       expiration_date |-> NoValue, expiration_date_str |-> NoValue],
      [given |-> TRUE, issuing_state |-> Null, number |-> Null,
       expiration_date |-> NoValue, expiration_date_str |-> NoValue],
      [given |-> TRUE, issuing_state |-> "ESP", number |-> "A1",
       expiration_date |-> StrValue(300101), expiration_date_str |-> NoValue],
      [given |-> TRUE, issuing_state |-> "ESP", number |-> "A1",
       expiration_date |-> DateValue(20300101), expiration_date_str |-> NoValue] }

\* MRZData(...) as _pipeline_extract builds it from the raw dict
MRZData(raw) ==
    [country_code |-> raw.issuing_state, number |-> raw.number,
     expiration_date |-> raw.expiration_date,
     expiration_date_str |-> raw.expiration_date_str]

Truthy(v) == v.type # "NoneType"

----------------------------------------------------------------------------
(* Strategy objects, the registry and get_strategy *)

\* doc_type.lower()
Lower(dt) ==
    CASE dt \in {"passport", "PASSPORT"} -> "passport"
      [] dt \in {"visa", "VISA"}         -> "visa"
      [] dt \in {"id_card", "ID_CARD"}   -> "id_card"
      [] dt = "ESP"                      -> "esp"
      [] dt = "USA"                      -> "usa"
      [] dt = "other"                    -> "other"
      [] dt = "PASSPORT_ESP"             -> "passport_esp"
      [] dt = "ID_ESP"                   -> "id_esp"
      [] dt = "ID"                       -> "id"
      [] OTHER                           -> "other"

STRATEGY_REGISTRY ==
    [k \in {"MRZ", "ESP", "EGY", "EU", "USA", "GEN", "VISA", "ID"} |->
        CASE k = "MRZ"  -> "MRZStrategy"
          [] k = "ESP"  -> "ESPassportStrategy"
          [] k = "EGY"  -> "EGYPassportStrategy"
          [] k = "EU"   -> "EUGenericStrategy"
          [] k = "USA"  -> "USPassportStrategy"
          [] k = "GEN"  -> "GenericStrategy"
          [] k = "VISA" -> "VisaStrategy"
          [] k = "ID"   -> "IDCardStrategy"]

\* Cls(): a new instance at the end of the heap h
Alloc(h, cls) == Append(h, NewStrategy(cls))

add_fallback_strategy_both_ways(h, s, t) == [h EXCEPT ![s].fallback = t, ![t].fallback = s]

\* DocumentExtractionStrategy.add_fallback_strategy: s._fallback_strategy = t
add_fallback_strategy(h, s, t) == [h EXCEPT ![s].fallback = t]

\* s.add_fallback_strategy(Cls())
AttachNew(h, s, cls) == add_fallback_strategy(Alloc(h, cls), s, Len(h) + 1)

get_strategy_kept_instances(h, dt) ==
    LET l   == Lower(dt)
        m   == Len(h) + 1
        cls == IF l = "visa" THEN STRATEGY_REGISTRY["VISA"]
               ELSE IF l \in {"id", "id_card", "drivers_license"} THEN STRATEGY_REGISTRY["ID"]
               ELSE IF dt \in DOMAIN STRATEGY_REGISTRY THEN STRATEGY_REGISTRY[dt]
               ELSE STRATEGY_REGISTRY["GEN"]
        old == {i \in 1..Len(h) : h[i].cls = cls}
    IN  IF l = "passport"
        THEN [heap |-> AttachNew(AttachNew(AttachNew(AttachNew(AttachNew(
                           Alloc(h, "MRZStrategy"),
                           m, "ESPassportStrategy"),
                           m, "EGYPassportStrategy"),
                           m, "EUGenericStrategy"),
                           m, "USPassportStrategy"),
                           m, "GenericStrategy"),
              strategy |-> m]
        ELSE IF old # {}
        THEN [heap |-> h, strategy |-> CHOOSE i \in old : \A j \in old : i <= j]
        ELSE [heap |-> Alloc(h, cls), strategy |-> m]

\* get_strategy(doc_type): the heap after the call and the instance returned
get_strategy(h, dt) ==
    LET l == Lower(dt)
        m == Len(h) + 1
    IN  IF l = "passport"
        THEN [heap |-> AttachNew(AttachNew(AttachNew(AttachNew(AttachNew(
                           Alloc(h, "MRZStrategy"),
                           m, "ESPassportStrategy"),
                           m, "EGYPassportStrategy"),
                           m, "EUGenericStrategy"),
                           m, "USPassportStrategy"),
                           m, "GenericStrategy"),
              strategy |-> m]
        ELSE IF l = "visa"
        THEN [heap |-> Alloc(h, STRATEGY_REGISTRY["VISA"]), strategy |-> m]
        ELSE IF l \in {"id", "id_card", "drivers_license"}
        THEN [heap |-> Alloc(h, STRATEGY_REGISTRY["ID"]), strategy |-> m]
        ELSE IF dt \in DOMAIN STRATEGY_REGISTRY
        THEN [heap |-> Alloc(h, STRATEGY_REGISTRY[dt]), strategy |-> m]
        ELSE [heap |-> Alloc(h, STRATEGY_REGISTRY["GEN"]), strategy |-> m]

\* The strategies reachable from s through fallback links, in chain order
RECURSIVE ChainOf(_, _)
ChainOf(h, s) == IF s = 0 THEN <<>> ELSE <<s>> \o ChainOf(h, h[s].fallback)

----------------------------------------------------------------------------
(* Dates: datetime.date as the integer yyyymmdd *)

YearOf(d)  == d \div 10000
MonthOf(d) == (d \div 100) % 100
DayOf(d)   == d % 100

IsLeap(y) == (y % 4 = 0 /\ y % 100 # 0) \/ y % 400 = 0

DaysInMonth(y, m) ==
    IF m = 2 THEN (IF IsLeap(y) THEN 29 ELSE 28)
    ELSE IF m \in {4, 6, 9, 11} THEN 30 ELSE 31

\* date(y, m, d) raises ValueError unless this holds
ValidDate(y, m, d) ==
    /\ y \in 1..9999
    /\ m \in 1..12
    /\ d >= 1 /\ d <= DaysInMonth(y, m)

MakeDate(y, m, d) == y * 10000 + m * 100 + d

RECURSIVE DaysBeforeMonth(_, _)
DaysBeforeMonth(y, m) ==
    IF m = 1 THEN 0 ELSE DaysBeforeMonth(y, m - 1) + DaysInMonth(y, m - 1)

\* date.toordinal(): what comparisons and timedelta arithmetic work on
Ord(dt) ==
    LET y == YearOf(dt) - 1 IN
    y * 365 + y \div 4 - y \div 100 + y \div 400
      + DaysBeforeMonth(YearOf(dt), MonthOf(dt)) + DayOf(dt)

\* MRZStrategy.extract: year += 2000 if year < 50 else 1900
MRZStrategyYear(y) == IF y < 50 THEN y + 2000 ELSE y + 1900

\* _find_expiration_date._build_date: y += 2000 if y <= (today.year % 100) + 10 else 1900
BuildDateYear(y, today_year) ==
    IF y <= (today_year % 100) + 10 THEN y + 2000 ELSE y + 1900

\* _parse_date_with_pivot_and_validation, the YYMMDD branch
PivotYear(y, today_year) ==
    LET current_year_yy == today_year % 100
        century         == today_year \div 100
    IN IF y >= current_year_yy - 20 THEN y + century * 100
       ELSE y + (century + 1) * 100

----------------------------------------------------------------------------
(* _parse_date_with_pivot_and_validation                                   *)
(* A raw date string is the record of what the patterns see in it:         *)
(*   fmt "sep3"   a<sep>b<sep>c with c of four digits                      *)
(*   fmt "ymd"    a<sep>b<sep>c with a of four digits                      *)
(*   fmt "yymmdd" six digits a b c                                         *)
(*   fmt "dmony"  day a, month name (b its number in month_map, 0 if not   *)
(*                there), year c                                           *)
(*   fmt "other"  a non-empty string no pattern matches;  "empty"  '' or None *)
(* and dp, what dateparser.parse returns for it (NoDate for None).         *)

RawDate(fmt, a, b, c, dp) == [fmt |-> fmt, a |-> a, b |-> b, c |-> c, dp |-> dp]

FarFutureDays == 7300

Parsed(dt, errors, warnings) == [date |-> dt, errors |-> errors, warnings |-> warnings]

\* Attempt 2: the regex fallbacks, tried in order until one yields a date
RegexFallback(raw, today) ==
    CASE raw.fmt = "sep3" /\ ((raw.a <= 39 /\ raw.b <= 19) \/ (raw.a <= 19 /\ raw.b <= 39)) ->
            IF ValidDate(raw.c, raw.b, raw.a)
            THEN Parsed(MakeDate(raw.c, raw.b, raw.a), <<>>, <<>>)
            ELSE IF ValidDate(raw.c, raw.a, raw.b)
            THEN Parsed(MakeDate(raw.c, raw.a, raw.b), <<>>, <<>>)
            ELSE Parsed(NoDate, <<>>, <<>>)
      [] raw.fmt = "ymd" /\ raw.b <= 19 /\ raw.c <= 39 ->
            IF ValidDate(raw.a, raw.b, raw.c)
            THEN Parsed(MakeDate(raw.a, raw.b, raw.c), <<>>, <<>>)
            ELSE Parsed(NoDate, <<>>, <<"failed to create date object">>)
      [] raw.fmt = "yymmdd" /\ raw.b <= 19 /\ raw.c <= 39 ->
            LET full_year == PivotYear(raw.a, YearOf(today))
                pivoted   == IF raw.a >= (YearOf(today) % 100) - 20 THEN <<>>
                             ELSE <<"applied pivot year rule">>
            IN IF ValidDate(full_year, raw.b, raw.c)
               THEN Parsed(MakeDate(full_year, raw.b, raw.c), <<>>, pivoted)
               ELSE Parsed(NoDate, <<>>, pivoted \o <<"failed to create date object">>)
      [] raw.fmt = "dmony" /\ raw.a <= 39 /\ raw.b # 0 ->
            IF ValidDate(raw.c, raw.b, raw.a)
            THEN Parsed(MakeDate(raw.c, raw.b, raw.a), <<>>, <<>>)
            ELSE Parsed(NoDate, <<>>, <<"failed to create date object">>)
      [] OTHER -> Parsed(NoDate, <<>>, <<>>)

\* DocumentExtractionStrategy._parse_date_with_pivot_and_validation
_parse_date_with_pivot_and_validation(raw, today) ==
    IF raw.fmt = "empty" THEN Parsed(NoDate, <<"invalid date string input">>, <<>>)
    ELSE LET first == IF raw.dp # NoDate THEN Parsed(raw.dp, <<>>, <<>>)
                      ELSE RegexFallback(raw, today)
         IN IF first.date = NoDate
            THEN Parsed(NoDate, first.errors \o <<"could not parse date">>, first.warnings)
            ELSE IF Ord(first.date) < Ord(today) - 1
            THEN Parsed(NoDate, first.errors \o <<"date is in the past">>, first.warnings)
            ELSE IF Ord(first.date) > Ord(today) + FarFutureDays
            THEN Parsed(first.date, first.errors,
                        first.warnings \o <<"suspiciously far future date">>)
            ELSE first

----------------------------------------------------------------------------
(* _find_expiration_date                                                   *)
(* The text is the record of what the function's patterns find in it:      *)
(*   dd_mon     the DD_MON_YYYY matches in text order: [d, m, y], m the    *)
(*              month's number in MONTH_MAP, 0 when the name is not there  *)
(*   windows    per line holding an expiry keyword, in line order, what    *)
(*              FULL_NUM, NAME_MID and YEAR_ONLY find first in its block   *)
(*              ([d, m, y] or NoMatch; the year or 0)                      *)
(*   date_like  per date-like substring, what dateparser.parse returns     *)
(*   years      the matches of \b(20\d{2})\b                               *)

NoMatch == [d |-> 0, m |-> 0, y |-> 0]
Dmy(d, m, y) == [d |-> d, m |-> m, y |-> y]

NoFound      == [type |-> "NoneType", value |-> 0]
FoundDate(v) == [type |-> "date", value |-> v]
FoundYear(v) == [type |-> "int", value |-> v]

YearWindow == 20

\* _find_expiration_date._build_date
_build_date(d, m, y, today) ==
    LET yyyy == IF y < 100 THEN BuildDateYear(y, YearOf(today)) ELSE y IN
    IF ValidDate(yyyy, m, d) /\ MakeDate(yyyy, m, d) > today
    THEN MakeDate(yyyy, m, d) ELSE NoDate

\* stage 2: the MRZ dict's expiration_date, a six-character string
MrzStage(mrz_date, today) ==
    IF mrz_date.fmt = "yymmdd"
    THEN _build_date(mrz_date.c, mrz_date.b, mrz_date.a, today)
    ELSE NoDate

\* stage 3: the first DD MON YYYY match that builds a date
RECURSIVE DdMonStage(_, _)
DdMonStage(matches, today) ==
    IF matches = <<>> THEN NoDate
    ELSE LET h  == Head(matches)
             dt == IF h.m # 0 THEN _build_date(h.d, h.m, h.y, today) ELSE NoDate
         IN IF dt # NoDate THEN dt ELSE DdMonStage(Tail(matches), today)

\* stage 4, one keyword line: FULL_NUM, then NAME_MID, then YEAR_ONLY
WindowScan(w, today) ==
    LET full == IF w.full_num # NoMatch
                THEN _build_date(w.full_num.d, w.full_num.m, w.full_num.y, today)
                ELSE NoDate
        name == IF w.name_mid # NoMatch /\ w.name_mid.m # 0
                THEN _build_date(w.name_mid.d, w.name_mid.m, w.name_mid.y, today)
                ELSE NoDate
    IN IF full # NoDate THEN FoundDate(full)
       ELSE IF name # NoDate THEN FoundDate(name)
       ELSE IF w.year_only # 0 /\ YearOf(today) < w.year_only
               /\ w.year_only <= YearOf(today) + YearWindow
       THEN FoundYear(w.year_only)
       ELSE NoFound

RECURSIVE WindowStage(_, _)
WindowStage(windows, today) ==
    IF windows = <<>> THEN NoFound
    ELSE LET r == WindowScan(Head(windows), today)
         IN IF r # NoFound THEN r ELSE WindowStage(Tail(windows), today)

\* stage 5: date_candidates after the dateparser loop
DateLikeCandidates(date_like, today) ==
    {date_like[i] : i \in {j \in 1..Len(date_like) :
                             date_like[j] # NoDate /\ date_like[j] > today}}

\* stage 5: date_candidates after the year-only loop
RECURSIVE YearCandidates(_, _, _)
YearCandidates(cands, years, today) ==
    IF years = <<>> THEN cands
    ELSE LET y == Head(years)
             c == IF YearOf(today) < y /\ y <= YearOf(today) + YearWindow /\ cands = {}
                  THEN {MakeDate(y, 12, 31)} ELSE cands
         IN YearCandidates(c, Tail(years), today)

SetMin(S) == CHOOSE x \in S : \A y \in S : x <= y

\* max(date_candidates)
SetMax(S) == CHOOSE x \in S : \A y \in S : x >= y

FallbackStage(t, today) ==
    LET cands == YearCandidates(DateLikeCandidates(t.date_like, today), t.years, today)
    IN IF cands # {} THEN FoundDate(SetMax(cands)) ELSE NoFound

_find_expiration_date_text_first(t, mrz_date, today) ==
    LET s2 == MrzStage(mrz_date, today)
        s3 == DdMonStage(t.dd_mon, today)
        s4 == WindowStage(t.windows, today)
    IN IF s3 # NoDate THEN FoundDate(s3)
       ELSE IF s2 # NoDate THEN FoundDate(s2)
       ELSE IF s4 # NoFound THEN s4
       ELSE FallbackStage(t, today)

\* _find_expiration_date(text, doc_type, mrz, today)
_find_expiration_date(t, mrz_date, today) ==
    LET s2 == MrzStage(mrz_date, today)
        s3 == DdMonStage(t.dd_mon, today)
        s4 == WindowStage(t.windows, today)
    IN IF s2 # NoDate THEN FoundDate(s2)
       ELSE IF s3 # NoDate THEN FoundDate(s3)
       ELSE IF s4 # NoFound THEN s4
       ELSE FallbackStage(t, today)

\* `if isinstance(expiration_date, int): expiration_date = date(expiration_date, 12, 31)`
ExpirationOf(found) ==
    CASE found.type = "date" -> found.value
      [] found.type = "int"  -> MakeDate(found.value, 12, 31)
      [] OTHER               -> NoDate

----------------------------------------------------------------------------
(* Document numbers and country codes: the strings the model draws, with   *)
(* what the validators' string tests see in each                           *)

\* len(n), n.isdigit(), len(set(n)) == 1, bool(n.strip()), re ^[A-Z0-9]+$
NumberShape(n) ==
    CASE n = "A1234567"      -> [len |-> 8,  digits |-> FALSE, same |-> FALSE, blank |-> FALSE, upper_alnum |-> TRUE]
      [] n = "B7654321"      -> [len |-> 8,  digits |-> FALSE, same |-> FALSE, blank |-> FALSE, upper_alnum |-> TRUE]
      [] n = "12345678Z"     -> [len |-> 9,  digits |-> FALSE, same |-> FALSE, blank |-> FALSE, upper_alnum |-> TRUE]
      [] n = "ENTIDAD"       -> [len |-> 7,  digits |-> FALSE, same |-> FALSE, blank |-> FALSE, upper_alnum |-> TRUE]
      [] n = "X1234567Y"     -> [len |-> 9,  digits |-> FALSE, same |-> FALSE, blank |-> FALSE, upper_alnum |-> TRUE]
      [] n = "A25886431"     -> [len |-> 9,  digits |-> FALSE, same |-> FALSE, blank |-> FALSE, upper_alnum |-> TRUE]
      [] n = "C01X00T47"     -> [len |-> 9,  digits |-> FALSE, same |-> FALSE, blank |-> FALSE, upper_alnum |-> TRUE]
      [] n = "123456789"     -> [len |-> 9,  digits |-> TRUE,  same |-> FALSE, blank |-> FALSE, upper_alnum |-> TRUE]
      [] n = "1111111"       -> [len |-> 7,  digits |-> TRUE,  same |-> TRUE,  blank |-> FALSE, upper_alnum |-> TRUE]
      [] n = "AB12"          -> [len |-> 4,  digits |-> FALSE, same |-> FALSE, blank |-> FALSE, upper_alnum |-> TRUE]
      [] n = "ab-1234567890" -> [len |-> 13, digits |-> FALSE, same |-> FALSE, blank |-> FALSE, upper_alnum |-> FALSE]
      [] n = " "             -> [len |-> 1,  digits |-> FALSE, same |-> TRUE,  blank |-> TRUE,  upper_alnum |-> FALSE]
      [] n = ""              -> [len |-> 0,  digits |-> FALSE, same |-> FALSE, blank |-> TRUE,  upper_alnum |-> FALSE]

Valid(errors, warnings)   == [is_valid |-> TRUE, errors |-> errors, warnings |-> warnings]
Invalid(errors, warnings) == [is_valid |-> FALSE, errors |-> errors, warnings |-> warnings]

\* _looks_valid_number(number, dtype)
_looks_valid_number(number, dtype) ==
    IF number = Null \/ number = "" THEN Invalid(<<"invalid number">>, <<>>)
    ELSE LET sh == NumberShape(number) IN
         IF sh.blank THEN Invalid(<<"number is empty or whitespace">>, <<>>)
         ELSE IF sh.len > 2 /\ sh.same /\ sh.digits
         THEN Invalid(<<"number contains all same digits">>, <<>>)
         ELSE IF dtype = "passport" /\ ~(sh.upper_alnum /\ sh.len \in 6..10)
         THEN Invalid(<<"invalid passport number format">>, <<>>)
         ELSE IF dtype = "id_card" /\ ~(sh.upper_alnum /\ sh.len \in 6..12)
         THEN Invalid(<<"invalid ID card number format">>, <<>>)
         ELSE IF dtype = "visa" /\ ~(sh.digits /\ sh.len \in 8..9)
         THEN Invalid(<<"invalid visa number format">>, <<>>)
         ELSE IF dtype = "generic" /\ ~(sh.upper_alnum /\ sh.len \in 6..12)
         THEN Valid(<<>>, <<"number format may be invalid">>)
         ELSE Valid(<<>>, <<>>)

\* len(c), c.isalpha(), c.isupper(), pycountry.countries.get(alpha_3=c) is not None
CountryShape(c) ==
    CASE c \in {"ESP", "EGY", "USA", "DEU"} -> [len |-> 3, alpha |-> TRUE,  upper |-> TRUE,  iso |-> TRUE]
      [] c \in {"XXX", "UNK", "ABC"}        -> [len |-> 3, alpha |-> TRUE,  upper |-> TRUE,  iso |-> FALSE]
      [] c = "esp"                          -> [len |-> 3, alpha |-> TRUE,  upper |-> FALSE, iso |-> FALSE]
      [] c = "E5P"                          -> [len |-> 3, alpha |-> FALSE, upper |-> TRUE,  iso |-> FALSE]
      [] c = "SPAIN"                        -> [len |-> 5, alpha |-> TRUE,  upper |-> TRUE,  iso |-> FALSE]
      [] c = ""                             -> [len |-> 0, alpha |-> FALSE, upper |-> FALSE, iso |-> FALSE]

\* the denylist of GenericStrategy._validate_country_code
invalid_codes == {"XXX", "ZZZ", "UNK", "N/A", "NA", "TBD"}

\* DocumentExtractionStrategy._validate_country_code: the verdict and the
\* errors it records on the instance
BaseValidateCountry(c) ==
    IF c = Null \/ c = "" THEN Invalid(<<"invalid country code type">>, <<>>)
    ELSE LET sh == CountryShape(c) IN
         IF sh.len # 3 THEN Invalid(<<"invalid country code length">>, <<>>)
         ELSE IF ~sh.alpha THEN Invalid(<<"country code contains non-letters">>, <<>>)
         ELSE IF ~sh.upper THEN Invalid(<<"country code not uppercase">>, <<>>)
         ELSE Valid(<<>>, <<>>)

\* GenericStrategy._validate_country_code
GenericValidateCountry(c) ==
    /\ c # Null /\ c # ""
    /\ LET sh == CountryShape(c) IN
       /\ sh.len = 3 /\ sh.alpha /\ sh.upper
       /\ c \notin invalid_codes
       /\ sh.iso

----------------------------------------------------------------------------
(* GenericStrategy's number and country resolvers                          *)
(* A line of the text is the record of what the patterns find in it:       *)
(*   blacklist  "date of birth" or "place of birth" occurs in the line     *)
(*   nums       the matches of _NUM_PATTERNS, pattern by pattern           *)
(*   mrz_cc     the group of the first of mrz_patterns that matches (Null  *)
(*              when none does), header_cc likewise for header_patterns    *)
(*   ctx_cc     the groups of the matches of country_re                    *)
(*   gen_cc     the matches of \b([A-Z]{3})\b                              *)
(* A score is kept multiplied by max(1, total_lines), so that              *)
(* position / max(1, total_lines) stays an integer.                        *)

Line(blacklist, nums, mrz_cc, header_cc, ctx_cc, gen_cc) == [blacklist |-> blacklist, nums |-> nums, mrz_cc |-> mrz_cc, header_cc |-> header_cc, ctx_cc |-> ctx_cc, gen_cc |-> gen_cc]

StrictBonus    == 3
FuzzyBonus     == 1
EarlyBonus     == 2
BlacklistMalus == 5
MrzDataScore   == 10
MrzLineScore   == 9
HeaderScore    == 8

Scale(lines) == Max(1, Len(lines))

_score_candidate_no_blacklist(pattern_type, position, lines) ==
    LET total == Scale(lines) IN
    (IF pattern_type = "strict" THEN StrictBonus * total
     ELSE IF pattern_type = "fuzzy" THEN FuzzyBonus * total ELSE 0)
    + Max(0, EarlyBonus * total - position)

\* DocumentExtractionStrategy._score_candidate with keyword None, for the
\* line at index position (from 0)
_score_candidate(pattern_type, position, lines) ==
    LET total == Scale(lines) IN
    (IF pattern_type = "strict" THEN StrictBonus * total
     ELSE IF pattern_type = "fuzzy" THEN FuzzyBonus * total ELSE 0)
    + Max(0, EarlyBonus * total - position)
    - (IF lines[position + 1].blacklist THEN BlacklistMalus * total ELSE 0)

Candidate(value, score, source, line) == [value |-> value, score |-> score, source |-> source, line |-> line]

\* the candidates of one kind found line by line, from line i on
RECURSIVE NumberCandidatesFrom(_, _)
NumberCandidatesFrom(lines, i) ==
    IF i > Len(lines) THEN <<>>
    ELSE [j \in 1..Len(lines[i].nums) |->
             Candidate(lines[i].nums[j], _score_candidate("strict", i - 1, lines),
                       "line", i)]
         \o NumberCandidatesFrom(lines, i + 1)

LastOfGreatest(keys) ==
    CHOOSE i \in 1..Len(keys) :
        /\ \A j \in 1..Len(keys) : keys[i] >= keys[j]
        /\ \A j \in (i + 1)..Len(keys) : keys[j] # keys[i]

\* candidates.sort(key=..., reverse=True) and candidates[0]: the sort is
\* stable, so the index of the first of the candidates with the greatest key
\* (keys: the candidates' keys, in the order collected)
FirstOfGreatest(keys) ==
    CHOOSE i \in 1..Len(keys) :
        /\ \A j \in 1..Len(keys) : keys[i] >= keys[j]
        /\ \A j \in 1..(i - 1) : keys[j] # keys[i]

NumberKey(c) == c.score

\* the number candidates of GenericStrategy.extract, in the order collected
NumberCandidates(mrz, lines) ==
    (IF mrz # PyNone /\ mrz.number \notin {Null, ""}
     THEN <<Candidate(mrz.number, MrzDataScore * Scale(lines), "MRZ", 0)>> ELSE <<>>)
    \o NumberCandidatesFrom(lines, 1)

\* GenericStrategy.extract: the number selected
GenericNumber(mrz, lines) ==
    LET cands == NumberCandidates(mrz, lines) IN
    IF cands = <<>> THEN Null
    ELSE cands[FirstOfGreatest([i \in 1..Len(cands) |-> NumberKey(cands[i])])].value

\* the sources of a country candidate, and the sort key of line 1068:
\* (score, source != "MRZ", source != "Header", source != "Context"), a tuple
\* compared field by field, kept as one integer
Tiers == <<"MRZ", "Header", "Context", "Generic">>

B(b) == IF b THEN 1 ELSE 0

CountryKey_source_first(c) ==
    B(c.source # "MRZ") * 4 + B(c.source # "Header") * 2 + B(c.source # "Context")

CountryKey(c) ==
    c.score * 8 + B(c.source # "MRZ") * 4 + B(c.source # "Header") * 2
    + B(c.source # "Context")

\* one candidate when the code found on a line passes _validate_country_code
ValidOnly(code, score, source, i) ==
    IF code # Null /\ GenericValidateCountry(code)
    THEN <<Candidate(code, score, source, i)>> ELSE <<>>

RECURSIVE ValidEach(_, _, _, _)
ValidEach(codes, score, source, i) ==
    IF codes = <<>> THEN <<>>
    ELSE ValidOnly(Head(codes), score, source, i)
         \o ValidEach(Tail(codes), score, source, i)

RECURSIVE MrzLineCandidates(_, _)
MrzLineCandidates(lines, i) ==
    IF i > Len(lines) THEN <<>>
    ELSE ValidOnly(lines[i].mrz_cc, MrzLineScore * Scale(lines), "MRZ", i)
         \o MrzLineCandidates(lines, i + 1)

RECURSIVE HeaderCandidates(_, _)
HeaderCandidates(lines, i) ==
    IF i > Len(lines) THEN <<>>
    ELSE ValidOnly(lines[i].header_cc, HeaderScore * Scale(lines), "Header", i)
         \o HeaderCandidates(lines, i + 1)

RECURSIVE ContextCandidates(_, _)
ContextCandidates(lines, i) ==
    IF i > Len(lines) THEN <<>>
    ELSE ValidEach(lines[i].ctx_cc, _score_candidate("strict", i - 1, lines),
                   "Context", i)
         \o ContextCandidates(lines, i + 1)

RECURSIVE GenericCandidates(_, _)
GenericCandidates(lines, i) ==
    IF i > Len(lines) THEN <<>>
    ELSE ValidEach(lines[i].gen_cc, _score_candidate("fuzzy", i - 1, lines),
                   "Generic", i)
         \o GenericCandidates(lines, i + 1)

\* the country candidates of GenericStrategy.extract, in the order collected;
\* the code of the MRZ record is appended as it comes
CountryCandidates(mrz, lines) ==
    (IF mrz # PyNone /\ mrz.country_code \notin {Null, ""}
     THEN <<Candidate(mrz.country_code, MrzDataScore * Scale(lines), "MRZ", 0)>>
     ELSE <<>>)
    \o MrzLineCandidates(lines, 1) \o HeaderCandidates(lines, 1)
    \o ContextCandidates(lines, 1) \o GenericCandidates(lines, 1)

\* GenericStrategy.extract: the country selected
GenericCountry(mrz, lines) ==
    LET cands == CountryCandidates(mrz, lines) IN
    IF cands = <<>> THEN Null
    ELSE cands[FirstOfGreatest([i \in 1..Len(cands) |-> CountryKey(cands[i])])].value

----------------------------------------------------------------------------
(* What one extract call may do, per strategy class *)

MaxNewErrs  == 1
MaxNewWarns == 1

Numbers      == {"A1", "B2"}
CountryCodes == {"ESP"}
DateSamples  == {20300101}

\* The field triples a resolver may come up with
FieldSets ==
    [number : {Null} \cup Numbers, issued_country : {Null} \cup CountryCodes,
     expiration_date : {NoDate} \cup DateSamples]

RECURSIVE AddErrors(_, _)
AddErrors(s, n) ==
    IF n = 0 THEN s ELSE add_error(AddErrors(s, n - 1), "error " \o ToString(n))

RECURSIVE AddWarnings(_, _)
AddWarnings(s, n) ==
    IF n = 0 THEN s ELSE add_warning(AddWarnings(s, n - 1), "warning " \o ToString(n))

Returns(s, r) == [raises |-> FALSE, self |-> s, result |-> r]
Raises(s)     == [raises |-> TRUE, self |-> s, result |-> Unset]

\* mrz_data.expiration_date.strftime('%y%m%d') on a value that is no date
StrftimeRaises(mrz) ==
    /\ mrz # PyNone
    /\ ~Truthy(mrz.expiration_date_str)
    /\ mrz.expiration_date.type = "str"

\* GenericStrategy.extract: records no error and no warning on the instance
GenericExtract(s, mrz) ==
    IF StrftimeRaises(mrz) THEN {Raises(s)}
    ELSE {Returns(s, _create_result(s, f.number, f.issued_country, f.expiration_date)) :
            f \in FieldSets}

\* What passporteye's reader may contribute inside MRZStrategy.extract:
\* the three fields it keeps and the number of errors recorded (a country code
\* that fails _validate_country_code is dropped with one error)
MRZReaderOutcomes(used) ==
    IF ~used
    THEN {[number |-> Null, issued_country |-> Null, expiration_date |-> NoDate,
           errors |-> 0]}
    ELSE {[number |-> n, issued_country |-> c, expiration_date |-> d, errors |-> e] :
            n \in {Null, ""} \cup Numbers, c \in {Null} \cup CountryCodes,
            d \in {NoDate} \cup DateSamples, e \in {0, 1}}
         \ {[number |-> n, issued_country |-> c, expiration_date |-> d, errors |-> 1] :
            n \in {Null, ""} \cup Numbers, c \in CountryCodes,
            d \in {NoDate} \cup DateSamples}

\* MRZStrategy.extract
MRZExtract(s, mrz, file_path, disk) ==
    LET used == (file_path # Null /\ file_path \in disk) IN
    UNION {
        LET s2 == AddErrors(s, ro.errors) IN
        IF ro.number \notin {Null, ""} /\ ro.issued_country \notin {Null, ""}
           /\ ro.expiration_date # NoDate
        THEN {Returns(s2, _create_result(s2, ro.number, ro.issued_country,
                                         ro.expiration_date))}
        ELSE IF StrftimeRaises(mrz) THEN {Raises(s2)}
        ELSE {Returns(s2, _create_result(s2,
                 IF ro.number = Null THEN g.number ELSE ro.number,
                 IF ro.issued_country = Null THEN g.issued_country
                                             ELSE ro.issued_country,
                 IF ro.expiration_date = NoDate THEN g.expiration_date
                                                ELSE ro.expiration_date)) :
              g \in FieldSets}
        : ro \in MRZReaderOutcomes(used) }
    \cup (IF used THEN {Returns(s, _create_result(s, Null, Null, NoDate))} ELSE {})

\* ESPassportStrategy.extract, EGYPassportStrategy.extract, EUGenericStrategy.extract
CountryExtract(s, mrz) ==
    LET country == CASE s.cls = "ESPassportStrategy"  -> "ESP"
                     [] s.cls = "EGYPassportStrategy" -> "EGY"
                     [] OTHER -> IF mrz # PyNone /\ mrz.country_code \notin {Null, ""}
                                 THEN mrz.country_code ELSE Null
    IN { LET s2 == AddWarnings(AddErrors(s, e), w) IN
         Returns(s2, _create_result(s2, n, country, d)) :
           e \in 0..MaxNewErrs, w \in 0..MaxNewWarns,
           n \in {Null} \cup Numbers, d \in {NoDate} \cup DateSamples }

\* VisaStrategy.extract, IDCardStrategy.extract
MrzFirstExtract(s, mrz) ==
    IF StrftimeRaises(mrz) THEN {Raises(s)}
    ELSE
    LET number  == IF mrz # PyNone /\ mrz.number \notin {Null, ""}
                   THEN mrz.number ELSE Null
        country == IF mrz # PyNone /\ mrz.country_code \notin {Null, ""}
                   THEN mrz.country_code ELSE Null
    IN UNION {
         LET own == _create_result(s, number, country, d) IN
         IF number = Null \/ country = Null \/ d = NoDate
         THEN {Returns(s, _merge_results(own, g.result)) :
                 g \in GenericExtract(NewStrategy("GenericStrategy"), mrz)}
         ELSE {Returns(s, own)}
         : d \in {NoDate} \cup DateSamples }

\* strategy.extract(text, mrz_data, file_path=file_path)
ExtractOutcomes(s, mrz, file_path, disk) ==
    CASE s.cls = "GenericStrategy"    -> GenericExtract(s, mrz)
      [] s.cls = "MRZStrategy"        -> MRZExtract(s, mrz, file_path, disk)
      [] s.cls = "USPassportStrategy" -> {Raises(s)}
      [] s.cls \in {"VisaStrategy", "IDCardStrategy"} -> MrzFirstExtract(s, mrz)
      [] OTHER                        -> CountryExtract(s, mrz)

----------------------------------------------------------------------------
(* One extract call on a known document, per strategy class                *)
(* A document is the record of what the patterns of the strategies find in *)
(* its text: the fields read by _find_expiration_date and by               *)
(* GenericStrategy (above), and                                            *)
(*   empty      `not text`                                                 *)
(*   es_num     the first match of ESPassportStrategy._NUM_RE, or Null     *)
(*   egy_num    the first match of EGYPassportStrategy._NUM_RE, or Null    *)
(*   egy_exp    group 1 of the first match of EGYPassportStrategy._EXP_RE  *)
(*   eu_num     the first match of EUGenericStrategy._NUM_RE, or Null      *)
(*   eu_exp     group 1 of the first match of EUGenericStrategy._EXP_RE    *)
(* In an MRZ record drawn for these calls the value of expiration_date_str *)
(* is a raw date (RawDate), the value of expiration_date a date.           *)

NoRaw == RawDate("empty", 0, 0, 0, NoDate)

\* date.strftime('%y%m%d')
Strftime(d) == RawDate("yymmdd", YearOf(d) % 100, MonthOf(d), DayOf(d), NoDate)

\* mrz_dict['expiration_date'] as GenericStrategy, VisaStrategy and
\* IDCardStrategy build it (NoRaw: no dict, or None in it)
MrzDictDate(mrz) ==
    IF mrz = PyNone THEN NoRaw
    ELSE IF Truthy(mrz.expiration_date_str) THEN mrz.expiration_date_str.value
    ELSE IF mrz.expiration_date.type = "date" THEN Strftime(mrz.expiration_date.value)
    ELSE NoRaw

ReturnsOn(s, r, g) == [raises |-> FALSE, self |-> s, result |-> r, generic_called |-> g]
RaisesOn(s, g)     == [raises |-> TRUE, self |-> s, result |-> Unset, generic_called |-> g]

\* `for err in errors: self.add_error(err)`
RECURSIVE AddErrorList(_, _)
AddErrorList(s, errors) ==
    IF errors = <<>> THEN s
    ELSE AddErrorList(add_error(s, Head(errors)), Tail(errors))

\* `for warn in warnings: self.add_warning(warn)`
RECURSIVE AddWarningList(_, _)
AddWarningList(s, warnings) ==
    IF warnings = <<>> THEN s
    ELSE AddWarningList(add_warning(s, Head(warnings)), Tail(warnings))

Record(s, errors, warnings) == AddWarningList(AddErrorList(s, errors), warnings)

\* GenericStrategy.extract
GenericExtractOn(s, mrz, doc, today) ==
    IF doc.empty \/ StrftimeRaises(mrz) THEN RaisesOn(s, FALSE)
    ELSE ReturnsOn(s, _create_result(s,
                          GenericNumber(mrz, doc.lines),
                          GenericCountry(mrz, doc.lines),
                          ExpirationOf(_find_expiration_date(doc, MrzDictDate(mrz), today))),
                   FALSE)

\* one statement after another: `value` is computed once, then the
\* statements that follow read it
Then(value, Rest(_)) == CHOOSE r \in {Rest(x) : x \in {value}} : TRUE

Checked_by_instance_errors(s, candidate, dtype) ==
    LET v  == _looks_valid_number(candidate, dtype)
        s2 == Record(s, v.errors, v.warnings)
    IN [self |-> s2,
        number |-> IF s2.validation_errors = <<>> THEN candidate ELSE Null]

\* a candidate number put through _looks_valid_number, its errors and
\* warnings recorded on the instance
Checked(s, candidate, dtype) ==
    LET v == _looks_valid_number(candidate, dtype) IN
    [self |-> Record(s, v.errors, v.warnings),
     number |-> IF v.is_valid THEN candidate ELSE Null]

\* the MRZ record's date in the country strategies: the date object as it
\* is, else expiration_date_str parsed
MrzRecordDate(s, mrz, today) ==
    IF mrz = PyNone THEN [self |-> s, date |-> NoDate]
    ELSE IF mrz.expiration_date.type = "date"
    THEN [self |-> s, date |-> mrz.expiration_date.value]
    ELSE IF Truthy(mrz.expiration_date_str)
    THEN LET p == _parse_date_with_pivot_and_validation(mrz.expiration_date_str.value, today)
         IN [self |-> Record(s, p.errors, p.warnings), date |-> p.date]
    ELSE [self |-> s, date |-> NoDate]

\* a date found in the text by a strategy's _EXP_RE, parsed
TextDate(s, raw, today) ==
    IF raw = NoRaw THEN [self |-> s, date |-> NoDate]
    ELSE LET p == _parse_date_with_pivot_and_validation(raw, today)
         IN [self |-> Record(s, p.errors, p.warnings), date |-> p.date]

\* `self._validate_country_code(issued_country)`, the verdict unused
CountryValidated(s, c) == Record(s, BaseValidateCountry(c).errors, <<>>)

HasNumber(mrz) == mrz # PyNone /\ mrz.number \notin {Null, ""}
HasCountry(mrz) == mrz # PyNone /\ mrz.country_code \notin {Null, ""}

\* ESPassportStrategy.extract
ESExtractOn(s, mrz, doc, today) ==
    IF doc.empty THEN RaisesOn(s, FALSE)
    ELSE LET n == IF HasNumber(mrz) THEN Checked(s, mrz.number, "passport")
                  ELSE IF doc.es_num # Null THEN Checked(s, doc.es_num, "passport")
                  ELSE [self |-> s, number |-> Null]
             d == MrzRecordDate(n.self, mrz, today)
             s3 == CountryValidated(d.self, "ESP")
         IN ReturnsOn(s3, _create_result(s3, n.number, "ESP", d.date), FALSE)

\* EGYPassportStrategy.extract (the line after the _MRZ_LINE_RE match is
\* always empty: the match ends at the end of its line)
EGYExtractOn(s, mrz, doc, today) ==
    IF doc.empty THEN RaisesOn(s, FALSE)
    ELSE Then(IF HasNumber(mrz) THEN Checked(s, mrz.number, "passport")
              ELSE [self |-> s, number |-> Null], LAMBDA n1 :
         Then(MrzRecordDate(n1.self, mrz, today), LAMBDA d1 :
         Then(IF n1.number = Null /\ doc.egy_num # Null
              THEN Checked(d1.self, doc.egy_num, "passport")
              ELSE [self |-> d1.self, number |-> n1.number], LAMBDA n2 :
         Then(IF d1.date = NoDate THEN TextDate(n2.self, doc.egy_exp, today)
              ELSE [self |-> n2.self, date |-> d1.date], LAMBDA d2 :
         Then(CountryValidated(d2.self, "EGY"), LAMBDA s3 :
         ReturnsOn(s3, _create_result(s3, n2.number, "EGY", d2.date), FALSE))))))

\* EUGenericStrategy.extract
EUExtractOn(s, mrz, doc, today) ==
    IF doc.empty THEN RaisesOn(s, FALSE)
    ELSE Then(IF HasNumber(mrz) THEN Checked(s, mrz.number, "id_card")
              ELSE [self |-> s, number |-> Null], LAMBDA n1 :
         Then(MrzRecordDate(n1.self, mrz, today), LAMBDA d1 :
         Then(IF n1.number = Null /\ doc.eu_num # Null
              THEN Checked(d1.self, doc.eu_num, "id_card")
              ELSE [self |-> d1.self, number |-> n1.number], LAMBDA n2 :
         Then(IF d1.date = NoDate THEN TextDate(n2.self, doc.eu_exp, today)
              ELSE [self |-> n2.self, date |-> d1.date], LAMBDA d2 :
         Then(IF HasCountry(mrz) THEN CountryValidated(d2.self, mrz.country_code)
              ELSE d2.self, LAMBDA s3 :
         ReturnsOn(s3, _create_result(s3, n2.number,
                         IF HasCountry(mrz) THEN mrz.country_code ELSE Null,
                         d2.date), FALSE))))))

\* USPassportStrategy.extract: the MRZ record is read as in the other
\* country strategies (the line after the text's MRZ-line match is always
\* empty), then the return statement raises: self.errors is no attribute of
\* the instance and errors no field of ExtractionResult
USExtractOn(s, mrz, doc, today) ==
    IF doc.empty THEN RaisesOn(s, FALSE)
    ELSE LET n == IF HasNumber(mrz) THEN Checked(s, mrz.number, "passport")
                  ELSE [self |-> s, number |-> Null]
             d == MrzRecordDate(n.self, mrz, today)
         IN RaisesOn(CountryValidated(d.self, "USA"), FALSE)

MrzFirstExtractOn_always_generic(s, mrz, doc, today) ==
    IF doc.empty \/ StrftimeRaises(mrz) THEN RaisesOn(s, FALSE)
    ELSE LET own == _create_result(s,
                      IF HasNumber(mrz) THEN mrz.number ELSE Null,
                      IF HasCountry(mrz) THEN mrz.country_code ELSE Null,
                      ExpirationOf(_find_expiration_date(doc, MrzDictDate(mrz), today)))
             g == GenericExtractOn(NewStrategy("GenericStrategy"), mrz, doc, today)
         IN ReturnsOn(s, _merge_results(g.result, own), TRUE)

\* VisaStrategy.extract, IDCardStrategy.extract
MrzFirstExtractOn(s, mrz, doc, today) ==
    IF doc.empty \/ StrftimeRaises(mrz) THEN RaisesOn(s, FALSE)
    ELSE LET own == _create_result(s,
                      IF HasNumber(mrz) THEN mrz.number ELSE Null,
                      IF HasCountry(mrz) THEN mrz.country_code ELSE Null,
                      ExpirationOf(_find_expiration_date(doc, MrzDictDate(mrz), today)))
         IN IF own.number = Null \/ own.issued_country = Null
               \/ own.expiration_date = NoDate
            THEN LET g == GenericExtractOn(NewStrategy("GenericStrategy"), mrz, doc, today)
                 IN ReturnsOn(s, _merge_results(own, g.result), TRUE)
            ELSE ReturnsOn(s, own, FALSE)

\* What passporteye's read_mrz gives MRZStrategy.extract:
\*   used     file_path is given and the file exists
\*   outcome  "raises", "none" (no MRZ found) or "dict"
\*   valid_score, number, country, expiration_date: the entries of to_dict()
\*   (expiration_date a RawDate, NoRaw when absent)
Reader(used, outcome, valid_score, number, country, expiration_date) == [used |-> used, outcome |-> outcome, valid_score |-> valid_score, number |-> number, country |-> country, expiration_date |-> expiration_date]

NoReader == Reader(FALSE, "none", 0, Null, Null, NoRaw)

MinValidScore == 50

\* the reader's expiration_date string turned into a date (lines 489-506)
ReaderDate(raw) ==
    IF raw.fmt = "yymmdd" /\ ValidDate(MRZStrategyYear(raw.a), raw.b, raw.c)
    THEN MakeDate(MRZStrategyYear(raw.a), raw.b, raw.c)
    ELSE NoDate

\* the three fields MRZStrategy.extract holds after the reader block
ReaderFields(s, rd) ==
    IF ~rd.used \/ rd.outcome # "dict"
    THEN [self |-> s, number |-> Null, issued_country |-> Null, expiration_date |-> NoDate]
    ELSE LET v == BaseValidateCountry(rd.country)
             checked == rd.country \notin {Null, ""}
         IN [self |-> IF checked THEN Record(s, v.errors, <<>>) ELSE s,
             number |-> rd.number,
             issued_country |-> IF checked /\ ~v.is_valid THEN Null ELSE rd.country,
             expiration_date |-> ReaderDate(rd.expiration_date)]

MRZExtractOn_keep_low_score(s, mrz, doc, rd, today) ==
    IF doc.empty THEN RaisesOn(s, FALSE)
    ELSE IF rd.used /\ rd.outcome = "raises"
    THEN ReturnsOn(s, _create_result(s, Null, Null, NoDate), FALSE)
    ELSE LET f  == ReaderFields(s, rd)
             s2 == f.self
         IN IF f.number \notin {Null, ""} /\ f.issued_country \notin {Null, ""}
               /\ f.expiration_date # NoDate
            THEN ReturnsOn(s2, _create_result(s2, f.number, f.issued_country,
                                              f.expiration_date), FALSE)
            ELSE LET g == GenericExtractOn(NewStrategy("GenericStrategy"), mrz, doc, today)
                 IN IF g.raises THEN RaisesOn(s2, TRUE)
                    ELSE ReturnsOn(s2, _create_result(s2,
                           IF f.number = Null THEN g.result.number ELSE f.number,
                           IF f.issued_country = Null THEN g.result.issued_country
                                                      ELSE f.issued_country,
                           IF f.expiration_date = NoDate THEN g.result.expiration_date
                                                         ELSE f.expiration_date), TRUE)

\* MRZStrategy.extract
MRZExtractOn(s, mrz, doc, rd, today) ==
    IF doc.empty THEN RaisesOn(s, FALSE)
    ELSE IF rd.used /\ rd.outcome = "raises"
    THEN ReturnsOn(s, _create_result(s, Null, Null, NoDate), FALSE)
    ELSE IF rd.used /\ rd.outcome = "dict" /\ rd.valid_score < MinValidScore
    THEN ReturnsOn(s, _create_result(s, Null, Null, NoDate), FALSE)
    ELSE LET f  == ReaderFields(s, rd)
             s2 == f.self
         IN IF f.number \notin {Null, ""} /\ f.issued_country \notin {Null, ""}
               /\ f.expiration_date # NoDate
            THEN ReturnsOn(s2, _create_result(s2, f.number, f.issued_country,
                                              f.expiration_date), FALSE)
            ELSE LET g == GenericExtractOn(NewStrategy("GenericStrategy"), mrz, doc, today)
                 IN IF g.raises THEN RaisesOn(s2, TRUE)
                    ELSE ReturnsOn(s2, _create_result(s2,
                           IF f.number = Null THEN g.result.number ELSE f.number,
                           IF f.issued_country = Null THEN g.result.issued_country
                                                      ELSE f.issued_country,
                           IF f.expiration_date = NoDate THEN g.result.expiration_date
                                                         ELSE f.expiration_date), TRUE)

\* strategy.extract(text, mrz_data, file_path=file_path) on a known document
ExtractOn(s, mrz, doc, rd, today) ==
    CASE s.cls = "GenericStrategy"     -> GenericExtractOn(s, mrz, doc, today)
      [] s.cls = "MRZStrategy"         -> MRZExtractOn(s, mrz, doc, rd, today)
      [] s.cls = "ESPassportStrategy"  -> ESExtractOn(s, mrz, doc, today)
      [] s.cls = "EGYPassportStrategy" -> EGYExtractOn(s, mrz, doc, today)
      [] s.cls = "EUGenericStrategy"   -> EUExtractOn(s, mrz, doc, today)
      [] s.cls = "USPassportStrategy"  -> USExtractOn(s, mrz, doc, today)
      [] s.cls \in {"VisaStrategy", "IDCardStrategy"} -> MrzFirstExtractOn(s, mrz, doc, today)

----------------------------------------------------------------------------
(* _pipeline_extract *)

DocTypes == {"passport", "PASSPORT", "visa", "VISA", "id_card", "ID_CARD",
             "ESP", "USA", "other"}

OtherVars == <<mergeVars, confVars, pivotVars, unitVars>>

\* step 1: `if not text: return None`
PipelineCheckText ==
    /\ pc = "text_returned"
    /\ IF text = 0
       THEN pc' = "done" /\ ret' = PyNone
       ELSE pc' = "mrz" /\ UNCHANGED ret
    /\ UNCHANGED <<kind, doc_type, raw_mrz, files, created, text, pdf, strats,
                   primary, loc, chain, result, exc>>
    /\ UNCHANGED OtherVars

\* step 2: MRZ data standardization
PipelineMrz ==
    /\ pc = "mrz"
    /\ \/ /\ loc' = [loc EXCEPT !.mrz_data_obj =
                        IF raw_mrz.given THEN MRZData(raw_mrz) ELSE PyNone]
          /\ UNCHANGED exc
       \/ /\ raw_mrz.given
          /\ exc' = Raised("pipeline.mrz")
          /\ loc' = [loc EXCEPT !.mrz_data_obj = PyNone]
    /\ pc' = "select"
    /\ UNCHANGED <<kind, doc_type, raw_mrz, files, created, text, pdf, strats,
                   primary, chain, result, ret>>
    /\ UNCHANGED OtherVars

\* step 3: primary_strategy = get_strategy(doc_type)
PipelineSelect ==
    /\ pc = "select"
    /\ LET g == get_strategy(strats, doc_type) IN
       /\ strats' = g.heap
       /\ primary' = g.strategy
    /\ pc' = "tempfile"
    /\ UNCHANGED <<kind, doc_type, raw_mrz, files, created, text, pdf, loc,
                   chain, result, ret, exc>>
    /\ UNCHANGED OtherVars

\* the temporary file handed to the strategies
PipelineTempFile ==
    /\ pc = "tempfile"
    /\ \/ /\ kind = "image"
          /\ \/ /\ files' = files \cup {"img"}
                /\ created' = created \cup {"img"}
                /\ loc' = [loc EXCEPT !.file_path = "img", !.temp_file = "img"]
                /\ pc' = "build"
                /\ UNCHANGED exc
             \/ /\ exc' = Raised("pipeline.tempfile")
                /\ pc' = Unwind("pipeline.tempfile")
                /\ UNCHANGED <<files, created, loc>>
       \/ /\ kind = "pdf"
          /\ pc' = "build"
          /\ \/ \* convert_from_path raises: the copy of the PDF is not removed
                /\ exc' = Raised("pipeline.pdf.convert")
                /\ files' = files \cup {"pdf"}
                /\ created' = created \cup {"pdf"}
                /\ UNCHANGED loc
             \/ \* no page rendered
                /\ created' = created \cup {"pdf"}
                /\ UNCHANGED <<files, loc, exc>>
             \/ \* saving the first page raises
                /\ exc' = Raised("pipeline.pdf.save")
                /\ files' = files \cup {"pdf", "render"}
                /\ created' = created \cup {"pdf", "render"}
                /\ UNCHANGED loc
             \/ /\ files' = files \cup {"render"}
                /\ created' = created \cup {"pdf", "render"}
                /\ loc' = [loc EXCEPT !.file_path = "render", !.temp_file = "render"]
                /\ UNCHANGED exc
       \/ /\ kind \notin {"image", "pdf"}
          /\ pc' = "build"
          /\ UNCHANGED <<files, created, loc, exc>>
    /\ UNCHANGED <<kind, doc_type, raw_mrz, text, pdf, strats, primary, chain,
                   result, ret>>
    /\ UNCHANGED OtherVars

\* The chain _pipeline_extract sets up for the hint: the heap and its head
PipelineChain(h, p, dt, mrz) ==
    LET known == mrz # PyNone /\ mrz.country_code \notin {Null, ""} IN
    IF dt = "PASSPORT"
    THEN LET m  == Len(h) + 1
             g  == Len(h) + 2
             h2 == Alloc(Alloc(h, "MRZStrategy"), "GenericStrategy")
             cs == get_strategy(h2, "PASSPORT_" \o mrz.country_code)
             h3 == IF known
                   THEN add_fallback_strategy(cs.heap, m, cs.strategy)
                   ELSE h2
         IN [heap |-> add_fallback_strategy(h3, m, g), strategy |-> m]
    ELSE IF dt = "ID_CARD"
    THEN IF known
         THEN LET cs == get_strategy(h, "ID_" \o mrz.country_code)
                  m  == Len(cs.heap) + 1
                  g  == Len(cs.heap) + 2
                  h2 == Alloc(Alloc(cs.heap, "MRZStrategy"), "GenericStrategy")
              IN [heap |-> add_fallback_strategy(
                               add_fallback_strategy(h2, cs.strategy, m),
                               cs.strategy, g),
                  strategy |-> cs.strategy]
         ELSE [heap |-> h, strategy |-> p]
    ELSE IF dt = "VISA"
    THEN LET v  == Len(h) + 1
             m  == Len(h) + 2
             g  == Len(h) + 3
             h2 == Alloc(Alloc(Alloc(h, "VisaStrategy"), "MRZStrategy"),
                         "GenericStrategy")
         IN [heap |-> add_fallback_strategy(add_fallback_strategy(h2, v, m), v, g),
             strategy |-> v]
    ELSE [heap |-> h, strategy |-> p]

\* the fallback hierarchy for the hint, up to the call of chain_strategies
PipelineBuildChain ==
    /\ pc = "build"
    /\ LET c == PipelineChain(strats, primary, doc_type, loc.mrz_data_obj) IN
       /\ strats' = c.heap
       /\ primary' = c.strategy
       /\ chain' = [strategy |-> c.strategy, results |-> <<>>, ran |-> <<>>]
    /\ pc' = "chain"
    /\ UNCHANGED <<kind, doc_type, raw_mrz, files, created, text, pdf, loc,
                   result, ret, exc>>
    /\ UNCHANGED OtherVars

NextInChain_stop_when_complete(h, s, r) ==
    IF is_complete(r) THEN 0 ELSE h[s].fallback

\* strategy = getattr(strategy, '_fallback_strategy', None)
NextInChain(h, s, r) == h[s].fallback

\* chain_strategies: one iteration of the while loop
ChainStep ==
    /\ pc = "chain"
    /\ chain.strategy # 0
    /\ \E o \in ExtractOutcomes(strats[chain.strategy], loc.mrz_data_obj,
                                loc.file_path, files) :
          IF o.raises
          THEN /\ exc' = Raised("pipeline.extract")
               /\ pc' = Unwind("pipeline.extract")
               /\ strats' = [strats EXCEPT ![chain.strategy] = o.self]
               /\ UNCHANGED chain
          ELSE /\ strats' = [strats EXCEPT ![chain.strategy] = o.self]
               /\ chain' = [strategy |-> NextInChain(strats, chain.strategy, o.result),
                            results  |-> Append(chain.results, o.result),
                            ran      |-> Append(chain.ran, chain.strategy)]
               /\ UNCHANGED <<pc, exc>>
    /\ UNCHANGED <<kind, doc_type, raw_mrz, files, created, text, pdf, primary,
                   loc, result, ret>>
    /\ UNCHANGED OtherVars

\* merged = results[0]; for r in results[1:]: merged = _merge_results(merged, r)
RECURSIVE FoldMerge(_, _)
FoldMerge(merged, rest) ==
    IF rest = <<>> THEN merged
    ELSE FoldMerge(_merge_results(merged, Head(rest)), Tail(rest))

\* chain_strategies: the fold after the loop, and the return
ChainMerge ==
    /\ pc = "chain"
    /\ chain.strategy = 0
    /\ result' = FoldMerge(Head(chain.results), Tail(chain.results))
    /\ pc' = "cleanup"
    /\ UNCHANGED <<kind, doc_type, raw_mrz, files, created, text, pdf, strats,
                   primary, loc, chain, ret, exc>>
    /\ UNCHANGED OtherVars

\* `if temp_file: os.remove(temp_file)` after the chain has run
PipelineCleanup ==
    /\ pc = "cleanup"
    /\ files' = IF loc.temp_file # Null THEN files \ {loc.temp_file} ELSE files
    /\ pc' = "return"
    /\ UNCHANGED <<kind, doc_type, raw_mrz, created, text, pdf, strats, primary,
                   loc, chain, result, ret, exc>>
    /\ UNCHANGED OtherVars

Payload_none_when_empty(r) ==
    IF r.number = Null /\ r.issued_country = Null /\ r.expiration_date = NoDate
    THEN PyNone
    ELSE [number            |-> r.number,
          document_country  |-> OrStr(OrStr(Null, r.issued_country), Null),
          expiration_date   |-> r.expiration_date,
          confidence        |-> r.confidence,
          validation_errors |-> r.validation_errors,
          warnings          |-> r.warnings]

\* step 5: the dictionary built from the result
Payload(r) ==
    [number            |-> r.number,
     document_country  |-> OrStr(OrStr(Null, r.issued_country), Null),
     expiration_date   |-> r.expiration_date,
     confidence        |-> r.confidence,
     validation_errors |-> r.validation_errors,
     warnings          |-> r.warnings]

PipelineReturn ==
    /\ pc = "return"
    /\ ret' = Payload(result)
    /\ pc' = "done"
    /\ UNCHANGED <<kind, doc_type, raw_mrz, files, created, text, pdf, strats,
                   primary, loc, chain, result, exc>>
    /\ UNCHANGED OtherVars

\* `except Exception as e: ... return None`
PipelineExcept ==
    /\ pc = "except"
    /\ ret' = PyNone
    /\ pc' = "done"
    /\ UNCHANGED <<kind, doc_type, raw_mrz, files, created, text, pdf, strats,
                   primary, loc, chain, result, exc>>
    /\ UNCHANGED OtherVars

IdleMerge ==
    /\ m_primary = Unset /\ m_fallback = Unset /\ m_merged = Unset
IdleConf ==
    /\ c_strategy = Unset /\ c_result = Unset
IdlePivot ==
    /\ p_in = Unset /\ p_out = Unset
IdleUnit ==
    /\ u_in = Unset /\ u_out = Unset
IdlePipe ==
    /\ pc = "idle" /\ kind = "none" /\ doc_type = "other"
    /\ raw_mrz = CHOOSE r \in RawMrzSamples : ~r.given
    /\ files = {} /\ created = {} /\ text = NoText /\ pdf = NoPdf
    /\ strats = <<>> /\ primary = 0
    /\ loc = [mrz_data_obj |-> PyNone, file_path |-> Null, temp_file |-> Null]
    /\ chain = [strategy |-> 0, results |-> <<>>, ran |-> <<>>]
    /\ result = Unset /\ ret = Unset /\ exc = {}

Init ==
    /\ pc = "start"
    /\ kind \in Kinds
    /\ doc_type \in DocTypes
    /\ raw_mrz \in RawMrzSamples
    /\ files = {} /\ created = {} /\ text = NoText /\ pdf = NoPdf
    /\ strats = <<>> /\ primary = 0
    /\ loc = [mrz_data_obj |-> PyNone, file_path |-> Null, temp_file |-> Null]
    /\ chain = [strategy |-> 0, results |-> <<>>, ran |-> <<>>]
    /\ result = Unset /\ ret = Unset /\ exc = {}
    /\ IdleMerge /\ IdleConf /\ IdlePivot /\ IdleUnit

Next ==
    \/ ExtractTextStart
    \/ ExtractFromImage
    \/ ExtractFromPdfText
    \/ ExtractFromPdfRender
    \/ ExtractFromPdfPage
    \/ ExtractTextFinally
    \/ PipelineCheckText
    \/ PipelineMrz
    \/ PipelineSelect
    \/ PipelineTempFile
    \/ PipelineBuildChain
    \/ ChainStep
    \/ ChainMerge
    \/ PipelineCleanup
    \/ PipelineReturn
    \/ PipelineExcept

Spec == Init /\ [][Next]_vars

----------------------------------------------------------------------------
(* chain_strategies called on the head of a drawn chain *)

\* The classes of the chains drawn, head first
ChainSamples ==
    { <<"ESPassportStrategy">>,
      <<"GenericStrategy", "ESPassportStrategy">>,
      <<"MRZStrategy", "GenericStrategy">>,
      <<"GenericStrategy", "USPassportStrategy">>,
      <<"VisaStrategy", "EUGenericStrategy">>,
      <<"ESPassportStrategy", "GenericStrategy", "EGYPassportStrategy">> }

\* a.add_fallback_strategy(b); b.add_fallback_strategy(c); ... on fresh instances
RECURSIVE Link(_, _)
Link(h, i) ==
    IF i >= Len(h) THEN h ELSE Link(add_fallback_strategy(h, i, i + 1), i + 1)

LinearChain(cs) == Link([i \in 1..Len(cs) |-> NewStrategy(cs[i])], 1)

InitChain ==
    /\ pc = "chain"
    /\ kind = "image" /\ doc_type = "other" /\ text = 60
    /\ raw_mrz \in RawMrzSamples
    /\ files = {} /\ created = {} /\ pdf = NoPdf
    /\ \E cs \in ChainSamples : strats = LinearChain(cs)
    /\ primary = 1
    /\ loc = [mrz_data_obj |-> IF raw_mrz.given THEN MRZData(raw_mrz) ELSE PyNone,
              file_path |-> Null, temp_file |-> Null]
    /\ chain = [strategy |-> 1, results |-> <<>>, ran |-> <<>>]
    /\ result = Unset /\ ret = Unset /\ exc = {}
    /\ IdleMerge /\ IdleConf /\ IdlePivot /\ IdleUnit

NextChain ==
    \/ ChainStep
    \/ ChainMerge

SpecChain == InitChain /\ [][NextChain]_vars

----------------------------------------------------------------------------
(* _merge_results on a drawn pair of results *)

MergeSamples ==
    { ExtractionResult(n, c, d, k, e, w) :
        n \in {Null, "", "A1", "B2"},
        c \in {Null, "", "ESP", "EGY"},
        d \in {NoDate, 20300101, 20310101},
        k \in {7, 10},
        e \in {<<>>, <<"e1">>, <<"e2", "e1">>},
        w \in {<<>>, <<"w1">>} }

InitMerge ==
    /\ m_primary \in MergeSamples
    /\ m_fallback \in MergeSamples
    /\ m_merged = Unset
    /\ IdlePipe /\ IdleConf /\ IdlePivot /\ IdleUnit

MergeResults ==
    /\ m_merged = Unset
    /\ m_merged' = _merge_results(m_primary, m_fallback)
    /\ UNCHANGED <<m_primary, m_fallback, pipeVars, confVars, pivotVars, unitVars>>

NextMerge == MergeResults

SpecMerge == InitMerge /\ [][NextMerge]_vars

----------------------------------------------------------------------------
(* add_error / add_warning on a fresh strategy and a fresh ExtractionResult *)

MaxErrors   == 6
MaxWarnings == 11

InitConf ==
    /\ c_strategy = NewStrategy("GenericStrategy")
    /\ c_result = ExtractionResult(Null, Null, NoDate, FullConfidence, <<>>, <<>>)
    /\ IdlePipe /\ IdleMerge /\ IdlePivot /\ IdleUnit

StrategyAddError ==
    /\ Len(c_strategy.validation_errors) < MaxErrors
    /\ c_strategy' = add_error(c_strategy, "error")
    /\ UNCHANGED <<c_result, pipeVars, mergeVars, pivotVars, unitVars>>

StrategyAddWarning ==
    /\ Len(c_strategy.warnings) < MaxWarnings
    /\ c_strategy' = add_warning(c_strategy, "warning")
    /\ UNCHANGED <<c_result, pipeVars, mergeVars, pivotVars, unitVars>>

ResultAddErrorCall ==
    /\ Len(c_result.validation_errors) < MaxErrors
    /\ c_result' = ResultAddError(c_result, "error")
    /\ UNCHANGED <<c_strategy, pipeVars, mergeVars, pivotVars, unitVars>>

ResultAddWarningCall ==
    /\ Len(c_result.warnings) < MaxWarnings
    /\ c_result' = ResultAddWarning(c_result, "warning")
    /\ UNCHANGED <<c_strategy, pipeVars, mergeVars, pivotVars, unitVars>>

NextConf ==
    \/ StrategyAddError
    \/ StrategyAddWarning
    \/ ResultAddErrorCall
    \/ ResultAddWarningCall

SpecConf == InitConf /\ [][NextConf]_vars

----------------------------------------------------------------------------
(* The expansions of the two-digit year of a YYMMDD expiry *)

TodayYears == 2020..2035

InitPivot ==
    /\ p_in \in [yy : 0..99, today_year : TodayYears]
    /\ p_out = Unset
    /\ IdlePipe /\ IdleMerge /\ IdleConf /\ IdleUnit

ExpandYear ==
    /\ p_out = Unset
    /\ p_out' = [mrz_strategy |-> MRZStrategyYear(p_in.yy),
                 build_date   |-> BuildDateYear(p_in.yy, p_in.today_year),
                 parse_pivot  |-> PivotYear(p_in.yy, p_in.today_year)]
    /\ UNCHANGED <<p_in, pipeVars, mergeVars, confVars, unitVars>>

NextPivot == ExpandYear

SpecPivot == InitPivot /\ [][NextPivot]_vars

----------------------------------------------------------------------------
(* _find_expiration_date called on drawn findings *)

Todays == {20261105}

\* what dateparser may return for a date-like substring (NoDate: None)
FindDates == {NoDate, 20200101, 20261104, 20261105, 20261106, 20300101, 20350615}

MaxDateLike == 3

DateLikeSamples == UNION {[1..n -> FindDates] : n \in 0..MaxDateLike}

YearsSamples == {<<>>, <<2031>>, <<2025, 2047, 2033>>}

Window(full_num, name_mid, year_only) == [full_num |-> full_num, name_mid |-> name_mid, year_only |-> year_only]

WindowsSamples ==
    { <<>>,
      <<Window(NoMatch, NoMatch, 0)>>,
      <<Window(Dmy(1, 1, 2020), NoMatch, 0), Window(Dmy(4, 11, 26), Dmy(1, 3, 2031), 0)>>,
      <<Window(Dmy(31, 2, 2030), Dmy(1, 0, 2030), 2032)>>,
      <<Window(NoMatch, NoMatch, 2026)>> }

DdMonSamples ==
    { <<>>, <<Dmy(15, 6, 2020)>>, <<Dmy(15, 0, 2030), Dmy(5, 11, 2026)>>,
      <<Dmy(15, 6, 2020), Dmy(15, 6, 2035)>> }

MrzDateSamples ==
    { NoRaw, RawDate("yymmdd", 30, 1, 1, NoDate), RawDate("yymmdd", 20, 1, 1, NoDate),
      RawDate("yymmdd", 40, 1, 1, NoDate), RawDate("sep3", 1, 1, 2030, 20300101) }

Findings(dd_mon, windows, date_like, years) == [dd_mon |-> dd_mon, windows |-> windows, date_like |-> date_like, years |-> years]

InitFind ==
    /\ u_in \in [op : {"find"}, today : Todays, mrz_date : MrzDateSamples,
                 doc : {Findings(a, w, l, y) : a \in DdMonSamples, w \in WindowsSamples,
                                              l \in DateLikeSamples, y \in YearsSamples}]
    /\ u_out = Unset
    /\ IdlePipe /\ IdleMerge /\ IdleConf /\ IdlePivot

FindExpirationDate ==
    /\ u_in # Unset /\ u_in.op = "find" /\ u_out = Unset
    /\ u_out' = _find_expiration_date(u_in.doc, u_in.mrz_date, u_in.today)
    /\ UNCHANGED <<u_in, pipeVars, mergeVars, confVars, pivotVars>>

NextFind == FindExpirationDate

SpecFind == InitFind /\ [][NextFind]_vars

----------------------------------------------------------------------------
(* extract called twice on one instance, on a drawn document *)

Doc(empty, lines, dates, found) == [empty |-> empty, lines |-> lines, dd_mon |-> dates.dd_mon, windows |-> dates.windows, date_like |-> dates.date_like, years |-> dates.years, es_num |-> found.es_num, egy_num |-> found.egy_num, egy_exp |-> found.egy_exp, eu_num |-> found.eu_num, eu_exp |-> found.eu_exp]

NoLine == Line(FALSE, <<>>, Null, Null, <<>>, <<>>)

\* "REINO DE ESPAÑA", "DOCUMENTO NACIONAL DE IDENTIDAD", "N° 12345678Z",
\* "VALIDEZ 01/01/2030": of _NUM_PATTERNS only
\* (?:ID|ID\s+CARD|TARJETA|PERMISO)[:\s]*([A-Z0-9]{6,10}) matches, in
\* IDENTIDAD; no country pattern matches
SpanishDniLines ==
    <<NoLine, Line(FALSE, <<"ENTIDAD">>, Null, Null, <<>>, <<>>), NoLine, NoLine>>

\* of the date patterns only date_like_re ("01/01/2030") and the year-only
\* pattern ("2030") match
SpanishDniDates == Findings(<<>>, <<>>, <<20300101>>, <<2030>>)

LinesSamples ==
    { <<NoLine>>,
      SpanishDniLines,
      <<Line(TRUE, <<"A1234567">>, Null, Null, <<>>, <<>>),
        Line(FALSE, <<"B7654321">>, Null, Null, <<>>, <<"DEU">>)>>,
      <<Line(TRUE, <<"A1234567">>, Null, Null, <<"USA">>, <<"USA">>)>>,
      <<Line(FALSE, <<"A1234567", "B7654321">>, Null, "ESP", <<>>, <<"ESP">>),
        Line(FALSE, <<>>, Null, Null, <<"DEU">>, <<"DEU", "XXX">>),
        Line(FALSE, <<"123456789">>, "EGY", Null, <<>>, <<"EGY">>)>>,
      <<Line(FALSE, <<>>, "XXX", "esp", <<"ABC">>, <<"UNK">>)>>,
      <<Line(FALSE, <<"B7654321">>, Null, Null, <<>>, <<"USA">>),
        Line(TRUE, <<"A1234567">>, Null, Null, <<"DEU">>, <<>>),
        Line(FALSE, <<>>, Null, Null, <<"EGY">>, <<>>)>> }

DatesSamples ==
    { Findings(<<>>, <<>>, <<>>, <<>>),
      SpanishDniDates,
      Findings(<<>>, <<>>, <<20261104, 20200101, NoDate>>, <<2025>>),
      Findings(<<>>, <<Window(NoMatch, NoMatch, 2032)>>, <<20300101>>, <<2032>>),
      Findings(<<Dmy(15, 6, 2035)>>, <<>>, <<20350615, 20300101>>, <<2035>>),
      Findings(<<Dmy(15, 6, 2050)>>, <<>>, <<>>, <<>>) }

Found(es_num, egy_num, egy_exp, eu_num, eu_exp) == [es_num |-> es_num, egy_num |-> egy_num, egy_exp |-> egy_exp, eu_num |-> eu_num, eu_exp |-> eu_exp]

FoundSamples ==
    { Found("X1234567Y", Null, NoRaw, Null, NoRaw),
      Found("X1234567Y", "A25886431", RawDate("other", 0, 0, 0, NoDate), "C01X00T47",
            RawDate("sep3", 1, 1, 2030, 20300101)),
      Found(Null, "A25886431", NoRaw, Null, RawDate("sep3", 4, 11, 2026, 20261104)) }

NoneFound == Found(Null, Null, NoRaw, Null, NoRaw)

DocSamples ==
    {Doc(FALSE, l, d, NoneFound) : l \in LinesSamples, d \in DatesSamples}
    \cup {Doc(FALSE, <<NoLine>>, d, f) : d \in DatesSamples, f \in FoundSamples}
    \cup {Doc(TRUE, <<>>, Findings(<<>>, <<>>, <<>>, <<>>), NoneFound)}

\* the (expiration_date, expiration_date_str) pairs of the MRZ records drawn
MrzExpirations ==
    { <<NoValue, NoValue>>,
      <<DateValue(20300101), NoValue>>,
      <<DateValue(20200101), NoValue>>,
      <<NoValue, StrValue(RawDate("yymmdd", 30, 1, 1, NoDate))>>,
      <<NoValue, StrValue(RawDate("yymmdd", 26, 11, 4, NoDate))>>,
      <<NoValue, StrValue(RawDate("yymmdd", 20, 1, 1, NoDate))>>,
      <<StrValue(300101), NoValue>> }

MrzRecord(country_code, number, e) == [country_code |-> country_code, number |-> number, expiration_date |-> e[1], expiration_date_str |-> e[2]]

MrzSamples ==
    {PyNone}
    \cup {MrzRecord(c, n, <<NoValue, NoValue>>) :
             c \in {Null, "ESP", "XXX"}, n \in {Null, "A1234567", "AB12"}}
    \cup {MrzRecord("ESP", "A1234567", e) : e \in MrzExpirations}
    \cup {MrzRecord(Null, Null, e) : e \in MrzExpirations}

ReaderSamples ==
    { NoReader,
      Reader(TRUE, "raises", 0, Null, Null, NoRaw),
      Reader(TRUE, "none", 0, Null, Null, NoRaw),
      Reader(TRUE, "dict", 40, "B7654321", "DEU", RawDate("yymmdd", 31, 5, 20, NoDate)),
      Reader(TRUE, "dict", 49, "B7654321", "DEU", RawDate("yymmdd", 31, 5, 20, NoDate)),
      Reader(TRUE, "dict", 50, "B7654321", "DEU", RawDate("yymmdd", 31, 5, 20, NoDate)),
      Reader(TRUE, "dict", 90, "B7654321", "DEU", RawDate("yymmdd", 20, 1, 1, NoDate)),
      Reader(TRUE, "dict", 90, Null, "esp", NoRaw),
      Reader(TRUE, "dict", 90, "", "DEU", RawDate("yymmdd", 30, 13, 1, NoDate)),
      Reader(TRUE, "dict", 90, "B7654321", Null, RawDate("yymmdd", 31, 5, 20, NoDate)) }

StrategyClasses ==
    {"MRZStrategy", "ESPassportStrategy", "EGYPassportStrategy", "EUGenericStrategy",
     "USPassportStrategy", "VisaStrategy", "IDCardStrategy", "GenericStrategy"}

InitExtract ==
    /\ u_in \in [op : {"extract"}, cls : StrategyClasses, mrz : MrzSamples,
                 doc : DocSamples, reader : ReaderSamples, today : Todays]
    /\ u_in.cls # "MRZStrategy" => u_in.reader = NoReader
    /\ u_out = Unset
    /\ IdlePipe /\ IdleMerge /\ IdleConf /\ IdlePivot

\* The result object is the instance's own _create_result, not a merge:
\* every extract returns self._create_result(...) except VisaStrategy and
\* IDCardStrategy after their Generic fallback, which return
\* self._merge_results(...) with new lists
AliasesInstance(cls, out) ==
    /\ ~out.raises
    /\ ~(cls \in {"VisaStrategy", "IDCardStrategy"} /\ out.generic_called)

\* _create_result hands the instance's own _validation_errors and _warnings
\* list objects to the ExtractionResult and add_error, add_warning append to
\* them in place: read later, the result's lists are what the instance
\* holds then.  confidence is a float, copied when the result is made.
ReadLater(res, self_now) ==
    [res EXCEPT !.validation_errors = self_now.validation_errors,
                   !.warnings = self_now.warnings]

\* strategy = Cls(); first = strategy.extract(text, mrz_data, file_path)
\* u_out.first and u_out.second are the outcomes as they were when the call
\* returned, u_out.held is the first result object as it reads now
ExtractFirst ==
    /\ u_in # Unset /\ u_in.op = "extract" /\ u_out = Unset
    /\ u_out' = Then(ExtractOn(NewStrategy(u_in.cls), u_in.mrz, u_in.doc, u_in.reader,
                               u_in.today),
                     LAMBDA o : [first |-> o, second |-> Unset, held |-> o.result])
    /\ UNCHANGED <<u_in, pipeVars, mergeVars, confVars, pivotVars>>

\* second = strategy.extract(text, mrz_data, file_path), on the same instance
ExtractAgain ==
    /\ u_in # Unset /\ u_in.op = "extract" /\ u_out # Unset /\ u_out.second = Unset
    /\ u_out' = Then(ExtractOn(u_out.first.self, u_in.mrz, u_in.doc, u_in.reader,
                               u_in.today),
                     LAMBDA o :
                       [first  |-> u_out.first,
                        second |-> o,
                        held   |-> IF AliasesInstance(u_in.cls, u_out.first)
                                   THEN ReadLater(u_out.first.result, o.self)
                                   ELSE u_out.first.result])
    /\ UNCHANGED <<u_in, pipeVars, mergeVars, confVars, pivotVars>>

NextExtract ==
    \/ ExtractFirst
    \/ ExtractAgain

SpecExtract == InitExtract /\ [][NextExtract]_vars

----------------------------------------------------------------------------
(* crm/signals.py: the pre_save receiver that stores what the pipeline     *)
(* returns on the Document instance                                        *)
(* instance.file is "empty" (no file), "False" or "True" (a bool put in    *)
(* its place), "same" (the file _original_file names) or "changed".        *)

FileTruthy(f) == f \in {"True", "same", "changed"}
FileIsBool(f) == f \in {"True", "False"}

Document(pk, file, has_original, number, document_country, expiration_date) == [pk |-> pk, file |-> file, has_original |-> has_original, number |-> number, document_country |-> document_country, expiration_date |-> expiration_date]

\* extract_document_data: None, or the dictionary {"number": None,
\* "issued_country": None, "expiration_date": None} updated with what
\* extract_document_data_with_mrz returned; a key that is not there reads as
\* None through .get. `raises` is an exception out of seek, read or the
\* pipeline call: the dictionary then still holds no value, and None is
\* returned
extract_document_data(instance, raises, pipeline_data) ==
    IF ~FileTruthy(instance.file) THEN PyNone
    ELSE IF raises THEN PyNone
    ELSE IF pipeline_data = PyNone
    THEN [number |-> Null, issued_country |-> Null, document_country |-> Null,
          expiration_date |-> NoDate]
    ELSE [number |-> pipeline_data.number, issued_country |-> Null,
          document_country |-> pipeline_data.document_country,
          expiration_date |-> pipeline_data.expiration_date]

needs_extraction(instance) ==
    \/ instance.pk = Null
    \/ (instance.pk # Null /\ instance.has_original /\ instance.file # "same")
    \/ instance.number \in {Null, ""}
    \/ instance.document_country \in {Null, ""}
    \/ instance.expiration_date = NoDate

Populate_unconditionally(instance, extracted_data) ==
    [instance EXCEPT !.number = extracted_data.number,
                     !.document_country = extracted_data.document_country,
                     !.expiration_date = extracted_data.expiration_date]

\* lines 93-98: a field is assigned when the value extracted for it is not
\* None
Populate(instance, extracted_data) ==
    [instance EXCEPT
        !.number = IF extracted_data.number # Null
                   THEN extracted_data.number ELSE @,
        !.document_country = IF extracted_data.document_country # Null
                             THEN extracted_data.document_country ELSE @,
        !.expiration_date = IF extracted_data.expiration_date # NoDate
                            THEN extracted_data.expiration_date ELSE @]

\* pre_save_document_extract_data: the instance after the receiver, and
\* what extract_document_data gave it (Unset when it was not called)
pre_save_document_extract_data(instance, raises, pipeline_data) ==
    IF FileTruthy(instance.file) /\ ~FileIsBool(instance.file)
       /\ needs_extraction(instance)
    THEN LET extracted_data == extract_document_data(instance, raises, pipeline_data)
         IN [instance |-> IF extracted_data # PyNone
                          THEN Populate(instance, extracted_data)
                          ELSE instance,
             extracted_data |-> extracted_data]
    ELSE [instance |-> instance, extracted_data |-> Unset]

InstanceSamples ==
    {Document(pk, f, o, n, c, d) :
        pk \in {Null, "1"}, f \in {"empty", "False", "True", "same", "changed"},
        o \in BOOLEAN, n \in {Null, "", "OLD123456"}, c \in {Null, "FRA"},
        d \in {NoDate, 20290101}}

\* what extract_document_data_with_mrz returns: None or the dictionary of
\* _pipeline_extract
PipelineDataSamples ==
    {PyNone}
    \cup {Payload(ExtractionResult(n, c, d, FullConfidence, <<>>, <<>>)) :
             n \in {Null, "", "A1234567"}, c \in {Null, "ESP"},
             d \in {NoDate, 20300101}}

InitSave ==
    /\ u_in \in [op : {"pre_save"}, instance : InstanceSamples, raises : BOOLEAN,
                 pipeline_data : PipelineDataSamples]
    /\ u_out = Unset
    /\ IdlePipe /\ IdleMerge /\ IdleConf /\ IdlePivot

\* Document.save() sends pre_save
PreSave ==
    /\ u_in # Unset /\ u_in.op = "pre_save" /\ u_out = Unset
    /\ u_out' = pre_save_document_extract_data(u_in.instance, u_in.raises,
                                               u_in.pipeline_data)
    /\ UNCHANGED <<u_in, pipeVars, mergeVars, confVars, pivotVars>>

NextSave == PreSave

SpecSave == InitSave /\ [][NextSave]_vars

----------------------------------------------------------------------------
(* extract_document_data_with_mrz: the entry point.  u_out holds its frame: *)
(*   at            "text" while its own call of _extract_text (line 311)   *)
(*                 runs, "pipeline" once it has called _pipeline_extract   *)
(*                 (line 342), "raised" when an exception has left it      *)
(*   ocr_text      the length of the text line 311 returned (NoText before) *)
(*   raw_mrz_data  the dictionary built at lines 323-339                   *)

EntryDocTypes == {"ID_CARD", "other"}

NotGiven == CHOOSE r \in RawMrzSamples : ~r.given

\* a line with more than ten '<' and a length of 30 to 50
MinMrzLine == 30

InitEntry ==
    /\ pc = "start"
    /\ kind \in Kinds
    /\ doc_type \in EntryDocTypes
    /\ raw_mrz = NotGiven
    /\ files = {} /\ created = {} /\ text = NoText /\ pdf = NoPdf
    /\ strats = <<>> /\ primary = 0
    /\ loc = [mrz_data_obj |-> PyNone, file_path |-> Null, temp_file |-> Null]
    /\ chain = [strategy |-> 0, results |-> <<>>, ran |-> <<>>]
    /\ result = Unset /\ ret = Unset /\ exc = {}
    /\ u_in = [op |-> "entry"]
    /\ u_out = [at |-> "text", ocr_text |-> NoText, raw_mrz_data |-> NotGiven]
    /\ IdleMerge /\ IdleConf /\ IdlePivot

InEntryText == u_in # Unset /\ u_in.op = "entry" /\ u_out.at = "text"
InPipeline  == u_in # Unset /\ u_in.op = "entry" /\ u_out.at = "pipeline"

\* line 311: the steps of _extract_text, run for the entry point
EntryExtractText ==
    /\ InEntryText
    /\ \/ ExtractTextStart
       \/ ExtractFromImage
       \/ ExtractFromPdfText
       \/ ExtractFromPdfRender
       \/ ExtractFromPdfPage
       \/ ExtractTextFinally

\* an exception out of _extract_text at line 311 leaves the entry point:
\* no try statement encloses the call
EntryTextRaises ==
    /\ InEntryText
    /\ pc = "except"
    /\ pc' = "raised"
    /\ u_out' = [u_out EXCEPT !.at = "raised"]
    /\ UNCHANGED <<kind, doc_type, raw_mrz, files, created, text, pdf, strats,
                   primary, loc, chain, result, ret, exc>>
    /\ UNCHANGED <<u_in, mergeVars, confVars, pivotVars>>

\* lines 314-342: the MRZ lines of ocr_text, read_mrz on them (its result,
\* None or an exception, all absorbed), and the call of _pipeline_extract
\* with file_content, doc_type and raw_mrz_data
EntryCallPipeline ==
    /\ InEntryText
    /\ pc = "text_returned"
    /\ \E r \in RawMrzSamples :
          /\ r.given => text >= MinMrzLine
          /\ u_out' = [at |-> "pipeline", ocr_text |-> text, raw_mrz_data |-> r]
          /\ raw_mrz' = r
    /\ text' = NoText
    /\ pc' = "start"
    /\ UNCHANGED <<kind, doc_type, files, created, pdf, strats, primary, loc,
                   chain, result, ret, exc>>
    /\ UNCHANGED <<u_in, mergeVars, confVars, pivotVars>>

\* line 342: the steps of _pipeline_extract
EntryPipeline ==
    /\ InPipeline
    /\ Next

NextEntry ==
    \/ EntryExtractText
    \/ EntryTextRaises
    \/ EntryCallPipeline
    \/ EntryPipeline

SpecEntry == InitEntry /\ [][NextEntry]_vars

----------------------------------------------------------------------------
(* One call of _pipeline_extract, or two concurrent calls, over one heap   *)
(* of strategy objects.  u_out holds the heap and, per call, its frame:    *)
(*   pc       "select" (line 198), "build" (245-277, up to the call of     *)
(*            chain_strategies), "chain" (the loop and the merge), "done"  *)
(*   primary  primary_strategy;  strategy, results: chain_strategies'      *)
(*            locals;  ran: the strategies whose extract was called        *)
(*   created  the strategy objects constructed by the call                 *)
(*   ret      what the call returns                                        *)

Call(dt, mrz, doc, reader) == [doc_type |-> dt, mrz |-> mrz, doc |-> doc, reader |-> reader]

Frame(call) == [pc |-> "select", call |-> call, primary |-> 0, strategy |-> 0, results |-> <<>>, ran |-> <<>>, created |-> {}, ret |-> Unset]

\* the objects constructed between heap h and heap h2
Constructed(h, h2) == (Len(h) + 1)..Len(h2)

\* one step of a call on the heap h: the heap and the frame after it
StepCall(h, f, today) ==
    IF f.pc = "select"
    THEN LET g == get_strategy(h, f.call.doc_type)
         IN [heap |-> g.heap,
             frame |-> [f EXCEPT !.pc = "build", !.primary = g.strategy,
                                 !.created = @ \cup Constructed(h, g.heap)]]
    ELSE IF f.pc = "build"
    THEN LET c == PipelineChain(h, f.primary, f.call.doc_type, f.call.mrz)
         IN [heap |-> c.heap,
             frame |-> [f EXCEPT !.pc = "chain", !.primary = c.strategy,
                                 !.strategy = c.strategy,
                                 !.created = @ \cup Constructed(h, c.heap)]]
    ELSE IF f.strategy # 0
    THEN Then(ExtractOn(h[f.strategy], f.call.mrz, f.call.doc, f.call.reader, today),
              LAMBDA o :
                [heap |-> [h EXCEPT ![f.strategy] = o.self],
                 frame |-> IF o.raises
                           THEN [f EXCEPT !.pc = "done", !.ret = PyNone,
                                          !.ran = Append(@, f.strategy)]
                           ELSE [f EXCEPT !.strategy = NextInChain(h, f.strategy, o.result),
                                          !.results = Append(@, o.result),
                                          !.ran = Append(@, f.strategy)]])
    ELSE [heap |-> h,
          frame |-> [f EXCEPT !.pc = "done",
                              !.ret = Payload(FoldMerge(Head(f.results), Tail(f.results)))]]

TwoCallsDoc == Doc(FALSE, <<Line(FALSE, <<"B7654321">>, Null, Null, <<"USA">>, <<"USA">>)>>, Findings(<<>>, <<>>, <<20300101>>, <<>>), Found("X1234567Y", Null, NoRaw, Null, NoRaw))

CallSamples ==
    { Call("ESP", MrzRecord("ESP", "AB12", <<NoValue, NoValue>>), TwoCallsDoc, NoReader),
      Call("ESP", MrzRecord("ESP", "A1234567",
                            <<NoValue, StrValue(RawDate("yymmdd", 20, 1, 1, NoDate))>>),
           TwoCallsDoc, NoReader),
      Call("PASSPORT", MrzRecord("ESP", "A1234567", <<DateValue(20300101), NoValue>>),
           TwoCallsDoc, Reader(TRUE, "dict", 90, Null, "esp", NoRaw)),
      Call("VISA", PyNone, TwoCallsDoc, NoReader),
      Call("ID_CARD", MrzRecord("ESP", "AB12", <<NoValue, NoValue>>), TwoCallsDoc,
           Reader(TRUE, "dict", 90, Null, "esp", NoRaw)),
      Call("USA", PyNone, TwoCallsDoc, NoReader) }

\* every hint with every MRZ country
Hints == DocTypes \cup DOMAIN STRATEGY_REGISTRY \cup {"drivers_license"}

HintCalls ==
    {Call(dt, PyNone, TwoCallsDoc, NoReader) : dt \in Hints}
    \cup {Call(dt, MrzRecord(c, "A1234567", <<NoValue, NoValue>>), TwoCallsDoc, NoReader) :
             dt \in Hints, c \in {Null, "ESP", "EGY", "USA", "XXX"}}

InitTwoCalls ==
    /\ u_in \in [op : {"calls"}, calls : [1..2 -> CallSamples], today : Todays]
    /\ u_out = [heap |-> <<>>, frames |-> [i \in DOMAIN u_in.calls |-> Frame(u_in.calls[i])]]
    /\ IdlePipe /\ IdleMerge /\ IdleConf /\ IdlePivot

InitOneCall ==
    /\ u_in \in [op : {"calls"}, calls : [1..1 -> HintCalls], today : Todays]
    /\ u_out = [heap |-> <<>>, frames |-> [i \in DOMAIN u_in.calls |-> Frame(u_in.calls[i])]]
    /\ IdlePipe /\ IdleMerge /\ IdleConf /\ IdlePivot

\* one of the calls takes its next step
CallStep ==
    /\ u_in # Unset /\ u_in.op = "calls"
    /\ \E i \in DOMAIN u_out.frames :
          /\ u_out.frames[i].pc # "done"
          /\ LET r == StepCall(u_out.heap, u_out.frames[i], u_in.today)
             IN u_out' = [heap |-> r.heap,
                          frames |-> [u_out.frames EXCEPT ![i] = r.frame]]
    /\ UNCHANGED <<u_in, pipeVars, mergeVars, confVars, pivotVars>>

NextCalls == CallStep

SpecTwoCalls == InitTwoCalls /\ [][NextCalls]_vars

\* one call, which takes every step it can take: every statement of
\* _pipeline_extract and every extract terminates
SpecOneCall == InitOneCall /\ [][NextCalls]_vars /\ WF_vars(CallStep)

----------------------------------------------------------------------------
(* Properties of chain_strategies and get_strategy *)

Classes(h, q) == [i \in 1..Len(q) |-> h[q[i]].cls]

IsPrefix(q, r) == Len(q) <= Len(r) /\ q = SubSeq(r, 1, Len(q))

\* the first value of the field that Python takes as true, the last one if none is
RECURSIVE FirstNumber(_)
FirstNumber(q) ==
    IF Len(q) = 1 \/ Head(q).number \notin {Null, ""} THEN Head(q).number
    ELSE FirstNumber(Tail(q))

RECURSIVE FirstCountry(_)
FirstCountry(q) ==
    IF Len(q) = 1 \/ Head(q).issued_country \notin {Null, ""}
    THEN Head(q).issued_country
    ELSE FirstCountry(Tail(q))

RECURSIVE FirstDate(_)
FirstDate(q) ==
    IF Len(q) = 1 \/ Head(q).expiration_date # NoDate THEN Head(q).expiration_date
    ELSE FirstDate(Tail(q))

RECURSIVE AllErrors(_)
AllErrors(q) ==
    IF q = <<>> THEN <<>> ELSE Head(q).validation_errors \o AllErrors(Tail(q))

RECURSIVE AllWarnings(_)
AllWarnings(q) ==
    IF q = <<>> THEN <<>> ELSE Head(q).warnings \o AllWarnings(Tail(q))

\* C1: chain_strategies calls extract once on every strategy reachable from the
\* head through the fallback links, in chain order, whatever the earlier results
\* were (a complete result does not stop the loop), and what it returns is the
\* left-to-right merge of all the results: per field the first value Python
\* takes as true, the lowest confidence, the errors and warnings in run order.
C1_ChainRunsEveryStrategy ==
    /\ pc = "chain" =>
          /\ IsPrefix(chain.ran, ChainOf(strats, primary))
          /\ Len(chain.results) = Len(chain.ran)
          /\ chain.strategy = IF Len(chain.ran) < Len(ChainOf(strats, primary))
                              THEN ChainOf(strats, primary)[Len(chain.ran) + 1]
                              ELSE 0
    /\ pc = "cleanup" =>
          /\ chain.ran = ChainOf(strats, primary)
          /\ Cardinality({chain.ran[i] : i \in 1..Len(chain.ran)}) = Len(chain.ran)
          /\ Len(chain.results) = Len(chain.ran)
          /\ result.number = FirstNumber(chain.results)
          /\ result.issued_country = FirstCountry(chain.results)
          /\ result.expiration_date = FirstDate(chain.results)
          /\ \A i \in 1..Len(chain.results) :
                result.confidence <= chain.results[i].confidence
          /\ \E i \in 1..Len(chain.results) :
                result.confidence = chain.results[i].confidence
          /\ result.validation_errors = AllErrors(chain.results)
          /\ result.warnings = AllWarnings(chain.results)

\* a chain of three has run to its end although its head returned a complete result
C1_Witness ==
    /\ pc = "cleanup"
    /\ Len(chain.ran) = 3
    /\ is_complete(chain.results[1])
    /\ result.validation_errors # <<>>

\* C2: the chain get_strategy("passport") returns runs MRZStrategy, then
\* ESPassportStrategy, EGYPassportStrategy, EUGenericStrategy, USPassportStrategy
\* in that order, then GenericStrategy.
C2_PassportChainOrder ==
    (doc_type = "passport" /\ pc = "chain" /\ chain.ran = <<>>) =>
        Classes(strats, ChainOf(strats, primary)) =
            <<"MRZStrategy", "ESPassportStrategy", "EGYPassportStrategy",
              "EUGenericStrategy", "USPassportStrategy", "GenericStrategy">>

----------------------------------------------------------------------------
(* Properties of _merge_results *)

\* C3: each merged field is the primary's value when Python takes that value
\* as true (a string that is neither None nor empty, a date that is not None),
\* and the fallback's value otherwise.
C3_MergeKeepsTruthyPrimary ==
    m_merged # Unset =>
        /\ m_merged.number =
              IF m_primary.number = Null \/ m_primary.number = ""
              THEN m_fallback.number ELSE m_primary.number
        /\ m_merged.issued_country =
              IF m_primary.issued_country = Null \/ m_primary.issued_country = ""
              THEN m_fallback.issued_country ELSE m_primary.issued_country
        /\ m_merged.expiration_date =
              IF m_primary.expiration_date = NoDate
              THEN m_fallback.expiration_date ELSE m_primary.expiration_date

\* an empty primary number has been merged with a fallback that has a number
C3_Witness ==
    /\ m_merged # Unset
    /\ m_primary.number = ""
    /\ m_fallback.number = "A1"
    /\ m_primary.issued_country = "ESP"
    /\ m_fallback.issued_country = "EGY"

\* C3 as stated: the primary's value is kept whenever it is not None, an
\* empty string included.
C3_MergeKeepsNonNullPrimary ==
    m_merged # Unset =>
        /\ m_merged.number =
              IF m_primary.number # Null THEN m_primary.number
              ELSE m_fallback.number
        /\ m_merged.issued_country =
              IF m_primary.issued_country # Null THEN m_primary.issued_country
              ELSE m_fallback.issued_country
        /\ m_merged.expiration_date =
              IF m_primary.expiration_date # NoDate THEN m_primary.expiration_date
              ELSE m_fallback.expiration_date

\* C4: the merged confidence is the lower of the two confidences, the merged
\* errors are the primary's errors followed by the fallback's in their
\* original order, and likewise the warnings.
C4_MergeConfidenceAndLists ==
    m_merged # Unset =>
        LET e == m_merged.validation_errors
            w == m_merged.warnings
        IN /\ m_merged.confidence <= m_primary.confidence
           /\ m_merged.confidence <= m_fallback.confidence
           /\ m_merged.confidence \in {m_primary.confidence, m_fallback.confidence}
           /\ Len(e) = Len(m_primary.validation_errors)
                         + Len(m_fallback.validation_errors)
           /\ SubSeq(e, 1, Len(m_primary.validation_errors))
                 = m_primary.validation_errors
           /\ SubSeq(e, Len(m_primary.validation_errors) + 1, Len(e))
                 = m_fallback.validation_errors
           /\ Len(w) = Len(m_primary.warnings) + Len(m_fallback.warnings)
           /\ SubSeq(w, 1, Len(m_primary.warnings)) = m_primary.warnings
           /\ SubSeq(w, Len(m_primary.warnings) + 1, Len(w)) = m_fallback.warnings

\* a confident primary has been merged with a less confident fallback, both
\* carrying errors
C4_Witness ==
    /\ m_merged # Unset
    /\ m_primary.confidence > m_fallback.confidence
    /\ m_primary.validation_errors = <<"e1">>
    /\ m_fallback.validation_errors = <<"e2", "e1">>
    /\ m_primary.warnings # <<>>

----------------------------------------------------------------------------
(* Properties of add_error / add_warning *)

ConfidenceAfter(e, w) ==
    Max(0, FullConfidence - ErrorPenalty * e - WarningPenalty * w)

----------------------------------------------------------------------------
(* Properties of the two-digit-year expansions *)

\* C10: each of the three expansions maps Y to 2000 + Y when Y < 50 and to
\* 1900 + Y otherwise, for every Y in 0..99 and whatever today's date is.
C10_EveryExpansionPivotsAt50 ==
    p_out # Unset =>
        LET expected == IF p_in.yy < 50 THEN 2000 + p_in.yy ELSE 1900 + p_in.yy
        IN /\ p_out.mrz_strategy = expected
           /\ p_out.build_date = expected
           /\ p_out.parse_pivot = expected

----------------------------------------------------------------------------
(* Properties of _pipeline_extract and _extract_text *)

\* the exceptions no inner except clause absorbs
OuterSites == {"text.tempfile", "pipeline.tempfile", "pipeline.extract"}

\* the OCR, PDF-text and PDF-rendering calls of the text acquisition
TextCallSites == {"image.ocr", "pdf.pdfminer", "pdf.convert", "pdf.page.save",
                  "pdf.page.ocr"}

SixKeys == {"number", "document_country", "expiration_date", "confidence",
            "validation_errors", "warnings"}

\* C6: no exception reaches the caller of _pipeline_extract; when the temporary
\* files of the text acquisition or of the image copy cannot be created, or a
\* strategy's extract raises, the call returns None.  (An exception raised
\* while the MRZ record is built or the PDF's first page is rendered is
\* absorbed where it occurs and the call goes on.)
C6_NoExceptionEscapes ==
    /\ pc # "raised"
    /\ pc = "except" => \E e \in exc : e.site \in OuterSites
    /\ pc = "done" =>
          ((\E e \in exc : e.site \in OuterSites) => ret = PyNone)

\* a strategy's extract has raised and the call has returned None
C6_Witness ==
    /\ pc = "done"
    /\ ret = PyNone
    /\ text > 0
    /\ \E e \in exc : e.site = "pipeline.extract"

\* C6 as stated: whichever step raises, the MRZ record construction and the
\* creation of the temporary files included, the call returns None.
C6_AnyRaiseReturnsNone ==
    /\ pc # "raised"
    /\ pc = "done" =>
          ((\E e \in exc : e.site \notin TextCallSites) => ret = PyNone)

C8_TempFilesDeleted ==
    pc = "done" => files \cap {"img", "pdf", "render"} = {}

\* C9: _extract_text returns a string whatever the OCR, PDF-text and
\* PDF-rendering calls do (an exception of theirs never leaves it), the empty
\* string when no kind is detected or the kind is neither image nor PDF, and
\* the temporary file it wrote is gone when it returns.
C9_ExtractTextNeverRaises ==
    /\ (\E e \in exc : e.site \in TextCallSites) =>
          pc \notin {"except", "raised"} \/ text # NoText
    /\ pc = "text_returned" =>
          /\ text >= 0
          /\ "txt" \notin files
          /\ kind \in {"none", "other"} => text = 0

\* _extract_text has returned after rendering or OCR raised on a file it wrote
C9_Witness ==
    /\ pc = "text_returned"
    /\ "txt" \in created
    /\ \E e \in exc : e.site \in {"pdf.convert", "pdf.page.ocr"}
    /\ \E e \in exc : e.site = "pdf.pdfminer"

----------------------------------------------------------------------------
(* Properties of the expiration date *)

Extracting == u_in # Unset /\ u_in.op = "extract"
Finding    == u_in # Unset /\ u_in.op = "find"

\* the results returned so far by the calls on the instance
Returned ==
    IF ~Extracting \/ u_out = Unset THEN {}
    ELSE {c.result : c \in {x \in {u_out.first} \cup
                                  (IF u_out.second = Unset THEN {} ELSE {u_out.second}) :
                              ~x.raises}}

\* C11: no ExtractionResult a strategy returns carries an expiration_date
\* strictly earlier than today: on every path a date in the past is treated
\* as not found.
C11_NoPastExpirationDate ==
    \A r \in Returned : r.expiration_date = NoDate \/ r.expiration_date >= u_in.today

\* the date-like substrings of the drawn text that dateparser turns into a
\* date after today
FutureDateLike ==
    {i \in 1..Len(u_in.doc.date_like) :
        u_in.doc.date_like[i] # NoDate /\ u_in.doc.date_like[i] > u_in.today}

\* the MRZ, DD-MONTHNAME-YYYY and keyword-window stages yield nothing
EarlierStagesYieldNothing ==
    /\ MrzStage(u_in.mrz_date, u_in.today) = NoDate
    /\ DdMonStage(u_in.doc.dd_mon, u_in.today) = NoDate
    /\ WindowStage(u_in.doc.windows, u_in.today) = NoFound

\* C12: when the MRZ, DD-MONTHNAME-YYYY and keyword-window stages yield
\* nothing and the text holds several date-like substrings that parse to
\* dates after today, _find_expiration_date returns the latest of those
\* dates; the substrings that parse to today or earlier have no influence.
C12_FallbackReturnsLatestFutureDate ==
    (/\ Finding /\ u_out # Unset
     /\ EarlierStagesYieldNothing
     /\ Cardinality(FutureDateLike) >= 2)
    => /\ u_out.type = "date"
       /\ \E i \in FutureDateLike : u_out.value = u_in.doc.date_like[i]
       /\ \A i \in FutureDateLike : u_in.doc.date_like[i] <= u_out.value

C12_Witness ==
    /\ Finding /\ u_out # Unset
    /\ EarlierStagesYieldNothing
    /\ \E i, j \in FutureDateLike : u_in.doc.date_like[i] < u_in.doc.date_like[j]
    /\ \E k \in 1..Len(u_in.doc.date_like) :
          u_in.doc.date_like[k] # NoDate /\ u_in.doc.date_like[k] <= u_in.today
    /\ u_in.doc.years # <<>>
    /\ u_out = FoundDate(20350615)

----------------------------------------------------------------------------
(* Properties of GenericStrategy.extract *)

\* a GenericStrategy instance has returned from its first extract call
GenericReturned ==
    /\ Extracting /\ u_in.cls = "GenericStrategy"
    /\ u_out # Unset /\ ~u_out.first.raises

\* C13: every issued_country GenericStrategy.extract returns is three
\* uppercase letters, none of XXX, ZZZ, UNK, N/A, NA, TBD, and a known ISO
\* code, whichever tier it comes from, the MRZ record's code included.
C13_GenericCountryIsValidated ==
    GenericReturned =>
        \/ u_out.first.result.issued_country = Null
        \/ LET c  == u_out.first.result.issued_country
               sh == CountryShape(c)
           IN sh.len = 3 /\ sh.alpha /\ sh.upper /\ c \notin invalid_codes /\ sh.iso

TierRank(source) == CHOOSE i \in 1..Len(Tiers) : Tiers[i] = source

\* C14: the country GenericStrategy.extract returns is that of a candidate
\* with the greatest score, and of the candidates with that score one of
\* the highest-priority tier (MRZ, header, context, generic).
C14_CountryWinnerHasGreatestScore ==
    GenericReturned =>
        LET cands == CountryCandidates(u_in.mrz, u_in.doc.lines) IN
        IF cands = <<>> THEN u_out.first.result.issued_country = Null
        ELSE \E i \in 1..Len(cands) :
                /\ cands[i].value = u_out.first.result.issued_country
                /\ \A j \in 1..Len(cands) :
                      /\ cands[j].score <= cands[i].score
                      /\ cands[j].score = cands[i].score
                         => TierRank(cands[i].source) <= TierRank(cands[j].source)

C14_Witness ==
    /\ GenericReturned
    /\ LET cands == CountryCandidates(u_in.mrz, u_in.doc.lines) IN
       /\ \A t \in {"MRZ", "Header", "Context", "Generic"} :
             \E i \in 1..Len(cands) : cands[i].source = t
       /\ \E i, j \in 1..Len(cands) : cands[i].value # cands[j].value
       /\ cands[1].source = "MRZ" /\ cands[1].score = MrzLineScore * Scale(u_in.doc.lines)
    /\ u_out.first.result.issued_country = "EGY"

\* C15: with no number in the MRZ record, GenericStrategy.extract never
\* selects a number found on a line holding "date of birth" or "place of
\* birth" when another candidate stands on a line holding neither.
C15_BirthLineNumberNeverPreferred ==
    (/\ GenericReturned /\ ~HasNumber(u_in.mrz)
     /\ \E i \in 1..Len(u_in.doc.lines) :
           ~u_in.doc.lines[i].blacklist /\ u_in.doc.lines[i].nums # <<>>)
    => \E i \in 1..Len(u_in.doc.lines) :
          /\ ~u_in.doc.lines[i].blacklist
          /\ \E j \in 1..Len(u_in.doc.lines[i].nums) :
                u_in.doc.lines[i].nums[j] = u_out.first.result.number

C15_Witness ==
    /\ GenericReturned /\ ~HasNumber(u_in.mrz)
    /\ Len(u_in.doc.lines) = 2
    /\ u_in.doc.lines[1].blacklist /\ u_in.doc.lines[1].nums = <<"A1234567">>
    /\ ~u_in.doc.lines[2].blacklist /\ u_in.doc.lines[2].nums = <<"B7654321">>
    /\ u_out.first.result.number = "B7654321"

----------------------------------------------------------------------------
(* Properties of the strategies that fall back on GenericStrategy *)

\* a VisaStrategy or IDCardStrategy instance has returned from its first call
MrzFirstReturned ==
    /\ Extracting /\ u_in.cls \in {"VisaStrategy", "IDCardStrategy"}
    /\ u_out # Unset /\ ~u_out.first.raises

\* the three fields after the MRZ-record/date stage of these two strategies
OwnNumber  == IF u_in.mrz # PyNone /\ u_in.mrz.number \notin {Null, ""}
              THEN u_in.mrz.number ELSE Null
OwnCountry == IF u_in.mrz # PyNone /\ u_in.mrz.country_code \notin {Null, ""}
              THEN u_in.mrz.country_code ELSE Null
OwnDate    == ExpirationOf(_find_expiration_date(u_in.doc, MrzDictDate(u_in.mrz), u_in.today))

\* what a fresh GenericStrategy returns on the same inputs
GenericResult ==
    GenericExtractOn(NewStrategy("GenericStrategy"), u_in.mrz, u_in.doc, u_in.today).result

MrzReaderUsed ==
    /\ Extracting /\ u_in.cls = "MRZStrategy" /\ u_out # Unset
    /\ ~u_in.doc.empty
    /\ u_in.reader.used /\ u_in.reader.outcome = "dict"

\* the reader's country passed _validate_country_code
ReaderCountryPassed ==
    /\ u_in.reader.country \notin {Null, ""}
    /\ LET sh == CountryShape(u_in.reader.country) IN sh.len = 3 /\ sh.alpha /\ sh.upper

\* the reader's expiration date, when its string makes a date
ReaderExpiration ==
    LET e == u_in.reader.expiration_date
        y == IF e.a < 50 THEN 2000 + e.a ELSE 1900 + e.a
    IN IF e.fmt = "yymmdd" /\ ValidDate(y, e.b, e.c) THEN MakeDate(y, e.b, e.c) ELSE NoDate

\* C17: in MRZStrategy.extract a reader valid_score below 50 lets none of the
\* reader's fields into the result; with a score of at least 50 every reader
\* field that passed validation is kept unchanged and only the fields still
\* missing are filled from GenericStrategy.
C17_ReaderFieldsKeptFromScore50 ==
    MrzReaderUsed =>
        IF u_in.reader.valid_score < 50
        THEN /\ ~u_out.first.raises /\ ~u_out.first.generic_called
             /\ u_out.first.result.number = Null
             /\ u_out.first.result.issued_country = Null
             /\ u_out.first.result.expiration_date = NoDate
        ELSE ~u_out.first.raises =>
             LET r == u_out.first.result IN
             /\ r.number = IF u_in.reader.number # Null THEN u_in.reader.number
                           ELSE GenericResult.number
             /\ r.issued_country = IF ReaderCountryPassed THEN u_in.reader.country
                                   ELSE IF u_in.reader.country = ""
                                   THEN ""
                                   ELSE GenericResult.issued_country
             /\ r.expiration_date = IF ReaderExpiration # NoDate THEN ReaderExpiration
                                    ELSE GenericResult.expiration_date

C17_Witness ==
    /\ MrzReaderUsed /\ ~u_out.first.raises
    /\ u_in.reader.valid_score >= 50
    /\ u_in.reader.number = "B7654321" /\ u_in.reader.country = Null
    /\ u_out.first.generic_called
    /\ u_out.first.result.number = "B7654321"
    /\ u_out.first.result.issued_country = "EGY"
    /\ u_out.first.result.expiration_date = 20310520
    /\ GenericResult.number # "B7654321"

----------------------------------------------------------------------------
(* Properties of the country-specialized passport strategies *)

FixedCountry ==
    [ESPassportStrategy |-> "ESP", EGYPassportStrategy |-> "EGY",
     USPassportStrategy |-> "USA"]

\* a country-specialized passport strategy was called on a non-empty text
PassportCalled ==
    /\ Extracting /\ u_in.cls \in DOMAIN FixedCountry
    /\ ~u_in.doc.empty /\ u_out # Unset

\* the MRZ record's number passes passport-number validation
MrzNumberPasses ==
    /\ u_in.mrz # PyNone /\ u_in.mrz.number \notin {Null, ""}
    /\ LET sh == NumberShape(u_in.mrz.number) IN
       /\ ~sh.blank
       /\ ~(sh.len > 2 /\ sh.same /\ sh.digits)
       /\ sh.upper_alnum /\ sh.len >= 6 /\ sh.len <= 10

\* C18: for every non-empty text and every MRZ record (or none),
\* ESPassportStrategy, EGYPassportStrategy and USPassportStrategy return a
\* result whose issued_country is ESP, EGY, USA respectively and whose number
\* is the MRZ record's number whenever that number passes passport-number
\* validation.
C18_PassportStrategiesFixedCountry ==
    PassportCalled =>
        /\ ~u_out.first.raises
        /\ u_out.first.result.issued_country = FixedCountry[u_in.cls]
        /\ MrzNumberPasses => u_out.first.result.number = u_in.mrz.number

----------------------------------------------------------------------------
(* Properties of two calls on one instance *)

Fields(r) == <<r.number, r.issued_country, r.expiration_date>>

\* C19: extract run twice on the same instance with the same text, MRZ
\* record, file and current date gives the same number, issued_country and
\* expiration_date both times, for every strategy class.
C19_SecondCallSameFields ==
    (Extracting /\ u_out # Unset /\ u_out.second # Unset) =>
        /\ u_out.second.raises = u_out.first.raises
        /\ ~u_out.first.raises
           => Fields(u_out.second.result) = Fields(u_out.first.result)

C19_Witness ==
    /\ Extracting /\ u_out # Unset /\ u_out.second # Unset
    /\ ~u_out.first.raises /\ ~u_out.second.raises
    /\ u_out.first.self.validation_errors # <<>>
    /\ Len(u_out.second.self.validation_errors) > Len(u_out.first.self.validation_errors)
    /\ u_out.second.result.confidence < u_out.first.result.confidence
    /\ u_out.first.result.number # Null
    /\ Fields(u_out.second.result) = Fields(u_out.first.result)

----------------------------------------------------------------------------
(* The Spanish DNI example *)

\* the strategy get_strategy("id_card") returns: a chain of one
IdCardHintClass ==
    LET g == get_strategy(<<>>, "id_card") IN g.heap[g.strategy].cls

\* the text of the example, no MRZ data, the hint "id_card"
SpanishDniExtracted ==
    /\ Extracting /\ u_out # Unset
    /\ u_in.cls = IdCardHintClass
    /\ u_in.mrz = PyNone
    /\ ~u_in.doc.empty /\ u_in.doc.lines = SpanishDniLines
    /\ Findings(u_in.doc.dd_mon, u_in.doc.windows, u_in.doc.date_like, u_in.doc.years)
       = SpanishDniDates

\* C20: for the text with the lines "REINO DE ESPAÑA", "DOCUMENTO NACIONAL DE
\* IDENTIDAD", "N° 12345678Z" and "VALIDEZ 01/01/2030", no MRZ data and the
\* hint "id_card", the pipeline returns number "12345678Z", issuing country
\* "ESP" and expiration date 2030-01-01.
C20_SpanishDniExample ==
    SpanishDniExtracted =>
        /\ ~u_out.first.raises
        /\ Payload(u_out.first.result).number = "12345678Z"
        /\ Payload(u_out.first.result).document_country = "ESP"
        /\ Payload(u_out.first.result).expiration_date = 20300101

----------------------------------------------------------------------------
(* Properties of the pre_save receiver *)

Saving == u_in # Unset /\ u_in.op = "pre_save"

\* the value extraction returned for a key of the dictionary, None when
\* extract_document_data was not called or returned None
ExtractedFor(key) ==
    IF u_out.extracted_data \in {Unset, PyNone}
    THEN (IF key = "expiration_date" THEN NoDate ELSE Null)
    ELSE u_out.extracted_data[key]

ThreeFields == {"number", "document_country", "expiration_date"}

NoValueOf(key) == IF key = "expiration_date" THEN NoDate ELSE Null

\* C21: the pre_save receiver never replaces a non-null number,
\* document_country or expiration_date of the document record with null:
\* each of the three fields is written only when the extraction returned a
\* non-null value for it, and is left unchanged otherwise (also when the
\* extraction returns None).
C21_ReceiverNeverWritesNull ==
    (Saving /\ u_out # Unset) =>
        \A key \in ThreeFields :
            /\ u_in.instance[key] # NoValueOf(key) => u_out.instance[key] # NoValueOf(key)
            /\ u_out.instance[key] =
                  IF ExtractedFor(key) # NoValueOf(key) THEN ExtractedFor(key)
                  ELSE u_in.instance[key]

\* a record with a number and a country set, whose extraction found a new
\* number and no country
C21_Witness ==
    /\ Saving /\ u_out # Unset
    /\ u_out.extracted_data \notin {Unset, PyNone}
    /\ u_in.instance.number = "OLD123456" /\ u_in.instance.document_country = "FRA"
    /\ u_out.extracted_data.number = "A1234567"
    /\ u_out.extracted_data.document_country = Null
    /\ u_out.instance.number = "A1234567"
    /\ u_out.instance.document_country = "FRA"

----------------------------------------------------------------------------
(* Properties of extract_document_data_with_mrz *)

InEntry == u_in # Unset /\ u_in.op = "entry"

\* the calls of _extract_text begun so far in one call of the entry point:
\* the one of line 311, begun in the initial state, and the one of
\* _pipeline_extract (line 172), begun with its first step
TextAcquisitions ==
    1 + (IF u_out.at = "pipeline" /\ pc # "start" THEN 1 ELSE 0)

\* C22: one call of extract_document_data_with_mrz performs text
\* acquisition (_extract_text, and with it the OCR of the document) exactly
\* once.
C22_TextAcquiredOnce ==
    (InEntry /\ pc = "done") => TextAcquisitions = 1

----------------------------------------------------------------------------
(* Properties of the stages of _find_expiration_date *)

\* the date the six digits of the MRZ dict's expiration_date expand to
\* (NoDate when they are no six digits or no calendar date)
MrzExpanded ==
    LET e == u_in.mrz_date
        y == BuildDateYear(e.a, YearOf(u_in.today))
    IN IF e.fmt = "yymmdd" /\ ValidDate(y, e.b, e.c) THEN MakeDate(y, e.b, e.c)
       ELSE NoDate

\* C23: _find_expiration_date returns the result of the earliest stage that
\* yields a value, in the order MRZ YYMMDD, DD-MONTHNAME-YYYY scan,
\* keyword-window scan, whole-text fallback; in particular an MRZ date that
\* expands to a date after today is returned whatever the text holds.
C23_EarliestStageWins ==
    (Finding /\ u_out # Unset) =>
        LET s2 == MrzStage(u_in.mrz_date, u_in.today)
            s3 == DdMonStage(u_in.doc.dd_mon, u_in.today)
            s4 == WindowStage(u_in.doc.windows, u_in.today)
        IN /\ (MrzExpanded # NoDate /\ MrzExpanded > u_in.today)
                 => u_out = FoundDate(MrzExpanded)
           /\ (s2 = NoDate /\ s3 # NoDate) => u_out = FoundDate(s3)
           /\ (s2 = NoDate /\ s3 = NoDate /\ s4 # NoFound) => u_out = s4
           /\ (s2 = NoDate /\ s3 = NoDate /\ s4 = NoFound)
                 => u_out = FallbackStage(u_in.doc, u_in.today)

\* an MRZ date of 2030 returned although the DD-MONTHNAME-YYYY scan, the
\* keyword windows and the fallback would each give another date
C23_Witness ==
    /\ Finding /\ u_out # Unset
    /\ MrzExpanded = 20300101
    /\ DdMonStage(u_in.doc.dd_mon, u_in.today) = 20350615
    /\ WindowStage(u_in.doc.windows, u_in.today) = FoundDate(20310301)
    /\ FallbackStage(u_in.doc, u_in.today) = FoundDate(20261106)
    /\ u_out = FoundDate(20300101)

----------------------------------------------------------------------------
(* Properties of the far-future check *)

FarFuture(d, today) == d # NoDate /\ Ord(d) > Ord(today) + FarFutureDays

InSeq(x, q) == \E i \in 1..Len(q) : q[i] = x

\* C24: whenever a strategy's result carries an expiration date more than
\* 20 years after today, the result's warnings hold a warning about it and
\* its confidence is reduced, whichever path found the date.
C24_FarFutureDateIsFlagged ==
    \A r \in Returned :
        FarFuture(r.expiration_date, u_in.today)
        => /\ InSeq("suspiciously far future date", r.warnings)
           /\ r.confidence <= FullConfidence - WarningPenalty

----------------------------------------------------------------------------
(* Properties of GenericStrategy's number resolver *)

\* C25: GenericStrategy's number resolver selects a candidate of maximum
\* score and, among the candidates of maximum score, the first one
\* collected (MRZ seed, then line by line, pattern by pattern, match by
\* match); a number of the MRZ record is seeded with score 10.0.
C25_NumberIsFirstOfMaximumScore ==
    GenericReturned =>
        LET cands == NumberCandidates(u_in.mrz, u_in.doc.lines)
            n     == u_out.first.result.number
        IN /\ cands = <<>> => n = Null
           /\ cands # <<>> =>
                 \E i \in 1..Len(cands) :
                    /\ n = cands[i].value
                    /\ \A j \in 1..Len(cands) : cands[j].score <= cands[i].score
                    /\ \A j \in 1..(i - 1) : cands[j].score < cands[i].score
           /\ HasNumber(u_in.mrz) =>
                 /\ cands[1].value = u_in.mrz.number
                 /\ cands[1].score = 10 * Scale(u_in.doc.lines)
                 /\ n = u_in.mrz.number

\* two numbers on the first line, of equal score: the first is selected
C25_Witness ==
    /\ GenericReturned /\ ~HasNumber(u_in.mrz)
    /\ Len(u_in.doc.lines) = 3
    /\ u_in.doc.lines[1].nums = <<"A1234567", "B7654321">>
    /\ u_in.doc.lines[3].nums = <<"123456789">>
    /\ LET cands == NumberCandidates(u_in.mrz, u_in.doc.lines)
       IN cands[1].score = cands[2].score /\ cands[3].score < cands[1].score
    /\ u_out.first.result.number = "A1234567"

----------------------------------------------------------------------------
(* Properties of the candidates that fail validation *)

SeqRange(q) == {q[i] : i \in 1..Len(q)}

\* the three-letter tokens GenericStrategy's country patterns find in the
\* text that are no ISO country code
NonIsoTokens ==
    {c \in UNION {({l.mrz_cc, l.header_cc} \ {Null}) \cup SeqRange(l.ctx_cc)
                  \cup SeqRange(l.gen_cc) : l \in SeqRange(u_in.doc.lines)} :
        LET sh == CountryShape(c) IN sh.len = 3 /\ sh.alpha /\ sh.upper /\ ~sh.iso}

\* the dates of today or earlier that the fallback stage of
\* _find_expiration_date meets
PastDatesMet ==
    IF /\ MrzStage(MrzDictDate(u_in.mrz), u_in.today) = NoDate
       /\ DdMonStage(u_in.doc.dd_mon, u_in.today) = NoDate
       /\ WindowStage(u_in.doc.windows, u_in.today) = NoFound
    THEN {d \in SeqRange(u_in.doc.date_like) : d # NoDate /\ d <= u_in.today}
    ELSE {}

\* C26: whenever a strategy finds a candidate that fails validation (a
\* three-letter token that is no ISO country code, a date in the past), its
\* result has a validation_errors entry, the candidate is not the field's
\* value and the confidence is below 1.0; stated here for GenericStrategy
\* and the _find_expiration_date resolver.
C26_FailedCandidateIsRecorded ==
    (GenericReturned /\ u_in.mrz = PyNone
     /\ (NonIsoTokens # {} \/ PastDatesMet # {}))
    => LET r == u_out.first.result
       IN /\ r.issued_country \notin NonIsoTokens
          /\ r.expiration_date \notin PastDatesMet
          /\ r.validation_errors # <<>>
          /\ r.confidence < FullConfidence

----------------------------------------------------------------------------
(* Properties of two concurrent calls *)

Calls    == u_in # Unset /\ u_in.op = "calls"
TwoCalls == Calls /\ DOMAIN u_in.calls = 1..2

\* a call run to its end on a heap of its own
RECURSIVE RunAlone(_, _, _)
RunAlone(h, f, today) ==
    IF f.pc = "done" THEN f
    ELSE LET r == StepCall(h, f, today) IN RunAlone(r.heap, r.frame, today)

\* C27: two extraction calls never share a strategy instance: every
\* strategy object a _pipeline_extract call uses is created inside that
\* call, so under every interleaving of two concurrent calls each call
\* returns the confidence, validation_errors and warnings it returns when
\* run alone.
C27_CallsShareNoStrategy ==
    TwoCalls =>
        /\ \A i \in 1..2 :
              LET f == u_out.frames[i] IN
              /\ SeqRange(f.ran) \subseteq f.created
              /\ f.primary # 0 => f.primary \in f.created
              /\ f.pc = "done" => f.ret = RunAlone(<<>>, Frame(u_in.calls[i]), u_in.today).ret
        /\ u_out.frames[1].created \cap u_out.frames[2].created = {}

\* two calls for the same hint have run interleaved, each on its own
\* ESPassportStrategy, and each returns one validation error
C27_Witness ==
    /\ TwoCalls
    /\ u_in.calls[1] = u_in.calls[2] /\ u_in.calls[1].doc_type = "ESP"
    /\ u_out.frames[1].pc = "done" /\ u_out.frames[2].pc = "done"
    /\ u_out.frames[1].ran = <<2>> /\ u_out.frames[2].ran = <<1>>
    /\ u_out.frames[1].ret # PyNone
    /\ Len(u_out.frames[1].ret.validation_errors) = 1
    /\ u_out.frames[2].ret = u_out.frames[1].ret

----------------------------------------------------------------------------
(* Properties of the chains built *)

\* following the fallback links from s ends within n steps
RECURSIVE EndsWithin(_, _, _)
EndsWithin(h, s, n) ==
    IF s = 0 THEN TRUE
    ELSE IF n = 0 THEN FALSE
    ELSE EndsWithin(h, h[s].fallback, n - 1)

\* every chain of the heap is finite and has no cycle
ChainsAcyclic ==
    Calls => \A s \in 1..Len(u_out.heap) : EndsWithin(u_out.heap, s, Len(u_out.heap))

AllDone == Calls /\ \A i \in DOMAIN u_out.frames : u_out.frames[i].pc = "done"

\* C28: every chain built by get_strategy and by _pipeline_extract, for
\* every hint and every MRZ country, is finite and acyclic, so that
\* chain_strategies run on it comes to its end.
C28_ChainsAcyclicAndRunEnds ==
    /\ []ChainsAcyclic
    /\ <>AllDone

\* the chain get_strategy builds for the hint "passport" has been run to
\* its end: MRZStrategy, then the last fallback attached
C28_Witness ==
    /\ Calls /\ DOMAIN u_in.calls = 1..1
    /\ u_in.calls[1].doc_type = "passport"
    /\ u_out.frames[1].pc = "done"
    /\ Len(u_out.heap) = 6
    /\ Classes(u_out.heap, u_out.frames[1].ran) = <<"MRZStrategy", "GenericStrategy">>

----------------------------------------------------------------------------
(* Properties of the result object held after a later call *)

ExtractedTwice == u_in # Unset /\ u_in.op = "extract" /\ u_out # Unset /\ u_out.second # Unset

\* C29: an ExtractionResult returned by extract is a snapshot: a later
\* extract (with its add_error and add_warning calls) on the instance that
\* produced it changes none of its confidence, validation_errors, warnings.
C29_ResultIsSnapshot ==
    (ExtractedTwice /\ ~u_out.first.raises) => u_out.held = u_out.first.result

\* what does hold: the confidence of the held result stays what it was
C29_ConfidenceIsKept ==
    (ExtractedTwice /\ ~u_out.first.raises) => u_out.held.confidence = u_out.first.result.confidence

----------------------------------------------------------------------------
(* Properties of the fallbacks attached in _pipeline_extract *)

CountryKnown ==
    /\ loc.mrz_data_obj # PyNone
    /\ loc.mrz_data_obj.country_code \notin {Null, ""}

\* C30: every strategy attached with add_fallback_strategy is run by the
\* chain_strategies call that follows: for PASSPORT with a known MRZ country
\* MRZStrategy, the country strategy, GenericStrategy; for VISA VisaStrategy,
\* MRZStrategy, GenericStrategy.
C30_AttachedStrategiesRun ==
    pc = "cleanup" =>
        /\ doc_type = "VISA" =>
              Classes(strats, chain.ran) = <<"VisaStrategy", "MRZStrategy", "GenericStrategy">>
        /\ (doc_type = "PASSPORT" /\ CountryKnown) =>
              /\ Len(chain.ran) = 3
              /\ Classes(strats, chain.ran)[1] = "MRZStrategy"
              /\ Classes(strats, chain.ran)[3] = "GenericStrategy"

\* what the code does: only the fallback attached last is run
C30_LastAttachedRuns ==
    pc = "cleanup" =>
        /\ doc_type = "VISA" =>
              Classes(strats, chain.ran) = <<"VisaStrategy", "GenericStrategy">>
        /\ doc_type = "PASSPORT" =>
              Classes(strats, chain.ran) = <<"MRZStrategy", "GenericStrategy">>

====
